---------------------------- MODULE Spec2Model ----------------------------
(***************************************************************************)
(* A model of npreadtext: the resumable tokenizer of src/src/tokenize.c,   *)
(* the buffered file stream of src/src/stream_file.c and the row reader of *)
(* src/src/rows.c.                                                         *)
(*                                                                         *)
(* Code points are one-character strings.  A chunk is a sequence of code   *)
(* points; a C pointer into a chunk is a 1-based index into the sequence,  *)
(* and the chunk's end pointer is Len(chunk) + 1.  Offsets into the field  *)
(* buffer are 0-based as in the C code (cell i is field_buffer[i + 1]).    *)
(***************************************************************************)
EXTENDS Integers, Sequences, FiniteSets, TLC

\* ------------------------------------------------------------------------
\* Bounds of the model
\* ------------------------------------------------------------------------

\* Longest enumerated input, counted in input symbols (a line terminator is
\* one symbol whatever its spelling).
MaxLen == 3

\* Largest number of places at which an input is cut into chunks.
MaxCuts == 2

\* Calls of tokenize() made after the first call that reported end-of-file.
MaxExtraCalls == 2

\* Longest enumerated file of the row reader, in bytes.
MaxFileLen == 4

\* Largest skiplines of a read.
MaxSkip == 2

\* Largest buffer_size of the file_buffer, in bytes.
MaxBufferSize == 3

\* Characters a string cell of the output holds.
MaxChars == 2

\* Largest number of rows a read is limited to.
MaxRows == 2

\* Longest enumerated token of a conversion, in code points.
MaxTokLen == 3

\* The largest elsize of a string descr.
MaxElsize == 2

\* The longest input of the runs over chunks of every status, in input
\* symbols, and the number of places at which it is cut.
MaxStatusLen == 4
MaxStatusCuts == 1

\* The number of fields of a structured schema.
MaxFieldTypes == 2

\* The number of lines that the reads with converters skip.
MaxTableSkip == 1

\* The magnitude from which on the model does not tell doubles apart.
FloatCap == 1000000

\* ------------------------------------------------------------------------
\* Code points
\* ------------------------------------------------------------------------

LF == "\n"
CR == "\r"
NUL == "NUL"
\* A cell that was allocated and never written.
JUNK == "JUNK"

\* The three spellings of a line terminator, as input symbols.
NLn == "<LF>"
NLr == "<CR>"
NLrn == "<CRLF>"
NLSymbols == {NLn, NLr, NLrn}

Min(S) == CHOOSE x \in S : \A y \in S : x <= y

RECURSIVE Flatten(_)
Flatten(ss) == IF ss = <<>> THEN <<>> ELSE Head(ss) \o Flatten(Tail(ss))

\* The code points an input symbol stands for.
Spell(sym) ==
    CASE sym = NLn -> <<LF>>
      [] sym = NLr -> <<CR>>
      [] sym = NLrn -> <<CR, LF>>
      [] OTHER -> <<sym>>

\* The input text of a symbol sequence.
Expand(syms) == Flatten([i \in 1..Len(syms) |-> Spell(syms[i])])

\* The same text with every line terminator spelled '\n'.
Canon(syms) == [i \in 1..Len(syms) |-> IF syms[i] \in NLSymbols THEN LF ELSE syms[i]]


\* ------------------------------------------------------------------------
\* parser_config: the dialects the tokenizer is run under
\* ------------------------------------------------------------------------

\* Delimiter ',', one-character comment '#', quote '"', embedded newlines
\* allowed, leading spaces kept.
DefaultConfig ==
    [delimiter |-> ",", comment |-> <<"#", NUL>>, quote |-> "\"",
     allow_embedded_newline |-> TRUE, ignore_leading_spaces |-> FALSE]

SpacesConfig == [DefaultConfig EXCEPT !.ignore_leading_spaces = TRUE]

NoEmbeddedConfig == [DefaultConfig EXCEPT !.allow_embedded_newline = FALSE]

\* A two-character comment marker.
Comment2Config == [DefaultConfig EXCEPT !.comment = <<"#", "!">>]

\* The delimiter is a space, and the spaces before a field are skipped.
WhitespaceConfig == [DefaultConfig EXCEPT !.delimiter = " ", !.ignore_leading_spaces = TRUE]

Configs == {DefaultConfig, SpacesConfig, NoEmbeddedConfig, Comment2Config}

\* ------------------------------------------------------------------------
\* Stream adapter: chunks and their status
\* ------------------------------------------------------------------------

BUFFER_MAY_CONTAIN_NEWLINE == "MAY_CONTAIN_NEWLINE"
BUFFER_IS_FILEEND == "FILE_END"
\* The status of a chunk that holds no line terminator.
BUFFER_NO_NEWLINE == "NO_NEWLINE"

\* stream_nextbuf: the next chunk of the stream and its status; once the
\* chunks are used up, an empty chunk with status FILE_END, every time.
stream_nextbuf(strm) ==
    IF strm = <<>>
    THEN [data |-> <<>>, status |-> BUFFER_IS_FILEEND, strm |-> <<>>]
    ELSE [data |-> Head(strm).data, status |-> Head(strm).status, strm |-> Tail(strm)]

\* ------------------------------------------------------------------------
\* tokenizer_state
\* ------------------------------------------------------------------------

TOKENIZE_INIT == "INIT"
TOKENIZE_UNQUOTED == "UNQUOTED"
TOKENIZE_QUOTED == "QUOTED"
TOKENIZE_WHITESPACE == "WHITESPACE"
TOKENIZE_CHECK_COMMENT == "CHECK_COMMENT"
TOKENIZE_QUOTED_CHECK_DOUBLE_QUOTE == "QUOTED_CHECK_DOUBLE_QUOTE"
TOKENIZE_FINALIZE_LINE == "FINALIZE_LINE"
TOKENIZE_EAT_CRLF == "EAT_CRLF"
TOKENIZE_FINALIZE_FILE == "FINALIZE_FILE"

\* The states that carry the TOKENIZE_OUTSIDE_FIELD flag: those entered by a
\* field-finalizing transition.
TOKENIZE_OUTSIDE_FIELD ==
    {TOKENIZE_INIT, TOKENIZE_WHITESPACE, TOKENIZE_FINALIZE_LINE,
     TOKENIZE_EAT_CRLF, TOKENIZE_FINALIZE_FILE}

JunkField == [offset |-> -1, length |-> -1, quoted |-> FALSE]

\* tokenizer_init: no chunk, no buffers.
tokenizer_init ==
    [state |-> TOKENIZE_INIT, num_fields |-> 0, buf_state |-> BUFFER_MAY_CONTAIN_NEWLINE,
     buf |-> <<>>, pos |-> 1,
     field_buffer |-> <<>>, field_buffer_length |-> 0, field_buffer_pos |-> 0,
     fields |-> <<>>, fields_size |-> 0]

\* ts->end of the current chunk.
EndOf(t) == Len(t.buf) + 1

\* The locals of tokenize() at its entry.
tokenize_locals(t) ==
    [pos |-> t.pos, is_quoted |-> FALSE, started_saving_word |-> FALSE,
     word_start |-> 0, word_length |-> 0, res |-> 0]

next_size(size) == ((size + 3) \div 4) * 4

\* realloc: the old cells kept, the new ones unwritten.
Realloc(buffer, size, junk) ==
    [i \in 1..size |-> IF i <= Len(buffer) THEN buffer[i] ELSE junk]

\* copy_to_field_buffer with the word restarted by every copy: what the
\* function would do if it ignored started_saving_word.
copy_to_field_buffer_restart(t, l, chunk) ==
    LET chunk_length == Len(chunk)
        size == chunk_length + t.field_buffer_pos + 1
        grow == t.field_buffer_length < size
        length == IF grow THEN next_size(size) ELSE t.field_buffer_length
        buffer == IF grow THEN Realloc(t.field_buffer, length, JUNK) ELSE t.field_buffer
        newpos == t.field_buffer_pos + chunk_length
        written ==
            [i \in 1..Len(buffer) |->
                IF i > t.field_buffer_pos /\ i <= newpos
                THEN chunk[i - t.field_buffer_pos]
                ELSE IF i = newpos + 1 THEN NUL ELSE buffer[i]]
    IN  [t |-> [t EXCEPT !.field_buffer = written, !.field_buffer_length = length,
                         !.field_buffer_pos = newpos],
         l |-> [l EXCEPT !.word_start = t.field_buffer_pos,
                         !.word_length = chunk_length]]

\* copy_to_field_buffer: append a chunk to the current word, NUL after it.
copy_to_field_buffer(t, l, chunk) ==
    LET chunk_length == Len(chunk)
        size == chunk_length + t.field_buffer_pos + 1
        grow == t.field_buffer_length < size
        length == IF grow THEN next_size(size) ELSE t.field_buffer_length
        buffer == IF grow THEN Realloc(t.field_buffer, length, JUNK) ELSE t.field_buffer
        word_start == IF l.started_saving_word THEN l.word_start ELSE t.field_buffer_pos
        word_length == IF l.started_saving_word THEN l.word_length ELSE 0
        newpos == t.field_buffer_pos + chunk_length
        written ==
            [i \in 1..Len(buffer) |->
                IF i > t.field_buffer_pos /\ i <= newpos
                THEN chunk[i - t.field_buffer_pos]
                ELSE IF i = newpos + 1 THEN NUL ELSE buffer[i]]
    IN  [t |-> [t EXCEPT !.field_buffer = written, !.field_buffer_length = length,
                         !.field_buffer_pos = newpos],
         l |-> [l EXCEPT !.word_start = word_start,
                         !.word_length = word_length + chunk_length]]

\* add_field growing the fields index only when it is overfull: the size
\* asked for is num_fields, not num_fields + 1.
add_field_overfull(t, word_start, word_length, is_quoted) ==
    LET size == t.num_fields
        grow == size > t.fields_size
        fsize == IF grow THEN next_size(size) ELSE t.fields_size
        fields == IF grow THEN Realloc(t.fields, fsize, JunkField) ELSE t.fields
    IN  [t EXCEPT !.field_buffer_pos = t.field_buffer_pos + 1,
                  !.fields = [fields EXCEPT ![t.num_fields + 1] =
                                 [offset |-> word_start, length |-> word_length,
                                  quoted |-> is_quoted]],
                  !.fields_size = fsize,
                  !.num_fields = t.num_fields + 1]

\* add_field: push the finished word onto the fields index.
add_field(t, word_start, word_length, is_quoted) ==
    LET size == t.num_fields + 1
        grow == size > t.fields_size
        fsize == IF grow THEN next_size(size) ELSE t.fields_size
        fields == IF grow THEN Realloc(t.fields, fsize, JunkField) ELSE t.fields
    IN  [t EXCEPT !.field_buffer_pos = t.field_buffer_pos + 1,
                  !.fields = [fields EXCEPT ![t.num_fields + 1] =
                                 [offset |-> word_start, length |-> word_length,
                                  quoted |-> is_quoted]],
                  !.fields_size = fsize,
                  !.num_fields = t.num_fields + 1]

\* ------------------------------------------------------------------------
\* tokenize(): the cases of its switch.  Each takes the tokenizer state t,
\* the locals l and the dialect, and gives the new t and l, the chunk to
\* copy (a sequence holding it, or <<>> when chunk_start stays NULL) and
\* whether the case jumps to finish.
\* ------------------------------------------------------------------------

IsNewline(c) == c = CR \/ c = LF

\* The first index in pos..Len(buf) whose code point is in stops, or the
\* chunk's end.
ScanTo(buf, pos, stops) ==
    LET hits == {i \in pos..Len(buf) : buf[i] \in stops}
    IN  IF hits = {} THEN Len(buf) + 1 ELSE Min(hits)

CaseResult(t, l, chunk, finish) == [t |-> t, l |-> l, chunk |-> chunk, finish |-> finish]

\* case_UNQUOTED with '\n' as the only line terminator.
case_UNQUOTED_lf_only(t, l, config) ==
    LET stop == ScanTo(t.buf, l.pos, {LF, config.delimiter, config.comment[1]})
        state ==
            IF stop > Len(t.buf) THEN t.state
            ELSE IF t.buf[stop] = LF THEN TOKENIZE_EAT_CRLF
            ELSE IF t.buf[stop] = config.delimiter THEN TOKENIZE_INIT
            ELSE IF config.comment[2] # NUL THEN TOKENIZE_CHECK_COMMENT
            ELSE TOKENIZE_FINALIZE_LINE
    IN  CaseResult([t EXCEPT !.state = state], [l EXCEPT !.pos = stop + 1],
                   <<SubSeq(t.buf, l.pos, stop - 1)>>, FALSE)

case_UNQUOTED(t, l, config) ==
    LET stop == ScanTo(t.buf, l.pos, {CR, LF, config.delimiter, config.comment[1]})
        state ==
            IF stop > Len(t.buf) THEN t.state
            ELSE IF IsNewline(t.buf[stop]) THEN TOKENIZE_EAT_CRLF
            ELSE IF t.buf[stop] = config.delimiter THEN TOKENIZE_INIT
            ELSE IF config.comment[2] # NUL THEN TOKENIZE_CHECK_COMMENT
            ELSE TOKENIZE_FINALIZE_LINE
    IN  CaseResult([t EXCEPT !.state = state], [l EXCEPT !.pos = stop + 1],
                   <<SubSeq(t.buf, l.pos, stop - 1)>>, FALSE)

\* case_QUOTED with line terminators always ending the quoted section.
case_QUOTED_ends_at_newline(t, l, config) ==
    LET stop == ScanTo(t.buf, l.pos, {CR, LF, config.quote})
        state ==
            IF stop > Len(t.buf) THEN t.state
            ELSE IF IsNewline(t.buf[stop]) THEN TOKENIZE_EAT_CRLF
            ELSE TOKENIZE_QUOTED_CHECK_DOUBLE_QUOTE
    IN  CaseResult([t EXCEPT !.state = state], [l EXCEPT !.pos = stop + 1],
                   <<SubSeq(t.buf, l.pos, stop - 1)>>, FALSE)

case_QUOTED(t, l, config) ==
    LET stops == IF config.allow_embedded_newline THEN {config.quote}
                 ELSE {CR, LF, config.quote}
        stop == ScanTo(t.buf, l.pos, stops)
        state ==
            IF stop > Len(t.buf) THEN t.state
            ELSE IF ~config.allow_embedded_newline /\ IsNewline(t.buf[stop])
                 THEN TOKENIZE_EAT_CRLF
            ELSE TOKENIZE_QUOTED_CHECK_DOUBLE_QUOTE
    IN  CaseResult([t EXCEPT !.state = state], [l EXCEPT !.pos = stop + 1],
                   <<SubSeq(t.buf, l.pos, stop - 1)>>, FALSE)

case_WHITESPACE(t, l, config) ==
    LET stop == ScanTo(t.buf, l.pos, {t.buf[i] : i \in 1..Len(t.buf)} \ {" "})
    IN  CaseResult([t EXCEPT !.state = IF stop > Len(t.buf) THEN t.state ELSE TOKENIZE_INIT],
                   [l EXCEPT !.pos = stop], <<>>, FALSE)

\* case_INIT with the opening quote left in the chunk.
case_INIT_keeps_quote(t, l, config) ==
    LET pos == IF config.ignore_leading_spaces
               THEN ScanTo(t.buf, l.pos, {t.buf[i] : i \in 1..Len(t.buf)} \ {" "})
               ELSE l.pos
    IN  IF config.ignore_leading_spaces /\ pos = EndOf(t)
        THEN CaseResult(t, [l EXCEPT !.pos = pos], <<>>, FALSE)
        ELSE IF t.buf[pos] = config.quote
        THEN CaseResult([t EXCEPT !.state = TOKENIZE_QUOTED],
                        [l EXCEPT !.pos = pos, !.is_quoted = TRUE], <<>>, FALSE)
        ELSE CaseResult([t EXCEPT !.state = TOKENIZE_UNQUOTED],
                        [l EXCEPT !.pos = pos, !.is_quoted = FALSE], <<>>, FALSE)

case_INIT(t, l, config) ==
    LET pos == IF config.ignore_leading_spaces
               THEN ScanTo(t.buf, l.pos, {t.buf[i] : i \in 1..Len(t.buf)} \ {" "})
               ELSE l.pos
    IN  IF config.ignore_leading_spaces /\ pos = EndOf(t)
        THEN CaseResult(t, [l EXCEPT !.pos = pos], <<>>, FALSE)
        ELSE IF t.buf[pos] = config.quote
        THEN CaseResult([t EXCEPT !.state = TOKENIZE_QUOTED],
                        [l EXCEPT !.pos = pos + 1, !.is_quoted = TRUE], <<>>, FALSE)
        ELSE CaseResult([t EXCEPT !.state = TOKENIZE_UNQUOTED],
                        [l EXCEPT !.pos = pos, !.is_quoted = FALSE], <<>>, FALSE)

case_CHECK_COMMENT(t, l, config) ==
    IF t.buf[l.pos] = config.comment[2]
    THEN CaseResult([t EXCEPT !.state = TOKENIZE_FINALIZE_LINE],
                    [l EXCEPT !.pos = l.pos + 1], <<>>, FALSE)
    ELSE CaseResult([t EXCEPT !.state = TOKENIZE_UNQUOTED], l,
                    <<SubSeq(config.comment, 1, 1)>>, FALSE)

\* case_QUOTED_CHECK_DOUBLE_QUOTE with the closing quote ending the field.
case_QUOTED_CHECK_DOUBLE_QUOTE_closes(t, l, config) ==
    IF t.buf[l.pos] = config.quote
    THEN CaseResult([t EXCEPT !.state = TOKENIZE_QUOTED],
                    [l EXCEPT !.pos = l.pos + 1], <<>>, FALSE)
    ELSE CaseResult([t EXCEPT !.state = TOKENIZE_INIT], l, <<>>, FALSE)

\* case_QUOTED_CHECK_DOUBLE_QUOTE waiting for a second quote: the state is
\* kept when the next character is not a quote.
case_QUOTED_CHECK_DOUBLE_QUOTE_waits(t, l, config) ==
    IF t.buf[l.pos] = config.quote
    THEN CaseResult([t EXCEPT !.state = TOKENIZE_QUOTED],
                    [l EXCEPT !.pos = l.pos + 1], <<>>, FALSE)
    ELSE CaseResult(t, l, <<>>, FALSE)

case_QUOTED_CHECK_DOUBLE_QUOTE(t, l, config) ==
    IF t.buf[l.pos] = config.quote
    THEN CaseResult([t EXCEPT !.state = TOKENIZE_QUOTED],
                    [l EXCEPT !.pos = l.pos + 1], <<>>, FALSE)
    ELSE CaseResult([t EXCEPT !.state = TOKENIZE_UNQUOTED], l, <<>>, FALSE)

case_FINALIZE_LINE(t, l, config) ==
    IF t.buf_state # BUFFER_MAY_CONTAIN_NEWLINE
    THEN CaseResult([t EXCEPT !.state = TOKENIZE_INIT, !.pos = EndOf(t)], l, <<>>, TRUE)
    ELSE LET stop == ScanTo(t.buf, l.pos, {CR, LF})
         IN  CaseResult([t EXCEPT !.state = IF stop > Len(t.buf) THEN t.state
                                            ELSE TOKENIZE_EAT_CRLF],
                        [l EXCEPT !.pos = stop], <<>>, FALSE)

case_EAT_CRLF(t, l, config) ==
    LET pos == IF IsNewline(t.buf[l.pos]) THEN l.pos + 1 ELSE l.pos
    IN  CaseResult([t EXCEPT !.state = TOKENIZE_INIT, !.pos = pos],
                   [l EXCEPT !.pos = pos], <<>>, TRUE)

case_FINALIZE_FILE(t, l, config) == CaseResult(t, l, <<>>, FALSE)

\* The switch on ts->state.
switch(t, l, config) ==
    CASE t.state = TOKENIZE_UNQUOTED -> case_UNQUOTED(t, l, config)
      [] t.state = TOKENIZE_QUOTED -> case_QUOTED(t, l, config)
      [] t.state = TOKENIZE_WHITESPACE -> case_WHITESPACE(t, l, config)
      [] t.state = TOKENIZE_INIT -> case_INIT(t, l, config)
      [] t.state = TOKENIZE_CHECK_COMMENT -> case_CHECK_COMMENT(t, l, config)
      [] t.state = TOKENIZE_QUOTED_CHECK_DOUBLE_QUOTE ->
             case_QUOTED_CHECK_DOUBLE_QUOTE(t, l, config)
      [] t.state = TOKENIZE_FINALIZE_LINE -> case_FINALIZE_LINE(t, l, config)
      [] t.state = TOKENIZE_EAT_CRLF -> case_EAT_CRLF(t, l, config)
      [] t.state = TOKENIZE_FINALIZE_FILE -> case_FINALIZE_FILE(t, l, config)

\* After the switch: copy whatever chunk the case set.
copy_chunk(r) ==
    IF r.chunk = <<>> THEN r
    ELSE LET c == copy_to_field_buffer(r.t, r.l, r.chunk[1])
         IN  [r EXCEPT !.t = c.t, !.l = [c.l EXCEPT !.started_saving_word = TRUE],
                       !.chunk = <<>>]

\* After the copy: a word whose state left the field is finalized.
finalize_field(r) ==
    IF r.l.started_saving_word /\ r.t.state \in TOKENIZE_OUTSIDE_FIELD
    THEN [r EXCEPT !.t = add_field(r.t, r.l.word_start, r.l.word_length, r.l.is_quoted),
                   !.l = [r.l EXCEPT !.started_saving_word = FALSE]]
    ELSE r

\* finish dropping a leading zero-length field of any row.
finish_any_row(t) ==
    IF t.num_fields >= 1 /\ t.fields[1].length = 0
    THEN [t EXCEPT !.num_fields = t.num_fields - 1]
    ELSE t

\* The finish label: a row of exactly one zero-length field has no fields.
finish(t) ==
    IF t.num_fields = 1 /\ t.fields[1].length = 0
    THEN [t EXCEPT !.num_fields = t.num_fields - 1]
    ELSE t

\* ------------------------------------------------------------------------
\* tokenize(): one call as a sequence of steps of a machine
\*   m = [ts, loc, strm, pc, rets, eofcalls]
\* ts is the tokenizer_state, loc the locals of the running call, strm the
\* chunks the stream still holds, pc the place in tokenize() ("call": not
\* in a call; "loop": at the top of while(1); "switch": past the fetch), rets
\* what the calls returned so far, eofcalls the calls that reported
\* end-of-file.
\* ------------------------------------------------------------------------

\* The locals of a call that has returned.
NoLocals ==
    [pos |-> 0, is_quoted |-> FALSE, started_saving_word |-> FALSE,
     word_start |-> 0, word_length |-> 0, res |-> 0]

\* The row a call hands back: the text and the quoted flag of each of the
\* num_fields fields, read from the field buffer through the fields index.
RowOf(t) ==
    [i \in 1..t.num_fields |->
        [text |-> SubSeq(t.field_buffer, t.fields[i].offset + 1,
                         t.fields[i].offset + t.fields[i].length),
         quoted |-> t.fields[i].quoted]]

\* tokenize() returns res.  The driver calls again until end-of-file was
\* reported 1 + MaxExtraCalls times, or an error was.
tokenize_return(m, t, res) ==
    LET eofcalls == IF res = 1 THEN m.eofcalls + 1 ELSE m.eofcalls
    IN  [m EXCEPT !.ts = t, !.loc = NoLocals,
                  !.rets = Append(m.rets, [res |-> res, fields |-> RowOf(t)]),
                  !.eofcalls = eofcalls,
                  !.pc = IF res < 0 \/ eofcalls > MaxExtraCalls THEN "done" ELSE "call"]

\* tokenize_enter without the reset of the row: the fields of the call
\* before stay in the fields index.
tokenize_enter_keeps_row(m) ==
    LET t == [m.ts EXCEPT !.field_buffer_pos = 0]
    IN  [m EXCEPT !.ts = t, !.loc = tokenize_locals(m.ts), !.pc = "loop"]

\* Entry of tokenize(): reset the field buffer and the row.
tokenize_enter(m) ==
    LET t == [m.ts EXCEPT !.field_buffer_pos = 0, !.num_fields = 0]
    IN  [m EXCEPT !.ts = t, !.loc = tokenize_locals(m.ts), !.pc = "loop"]

\* tokenize_fetch without the FINALIZE_FILE state: end-of-file is reported at
\* once, whatever the state.
tokenize_fetch_eof_at_once(m) ==
    LET nb == stream_nextbuf(m.strm)
        t == [m.ts EXCEPT !.buf_state = nb.status, !.buf = nb.data, !.pos = 1]
        fetched == [m EXCEPT !.strm = nb.strm]
    IN  IF nb.status = "ERROR" THEN tokenize_return(fetched, t, -1)
        ELSE IF t.pos = EndOf(t)
        THEN IF t.buf_state # BUFFER_IS_FILEEND THEN tokenize_return(fetched, t, -1)
             ELSE tokenize_return(fetched, finish(t), 1)
        ELSE [fetched EXCEPT !.ts = t, !.loc = [m.loc EXCEPT !.pos = t.pos],
                             !.pc = "switch"]

\* Top of the loop with the chunk used up: fetch new data.
tokenize_fetch(m) ==
    LET nb == stream_nextbuf(m.strm)
        t == [m.ts EXCEPT !.buf_state = nb.status, !.buf = nb.data, !.pos = 1]
        fetched == [m EXCEPT !.strm = nb.strm]
    IN  IF nb.status = "ERROR" THEN tokenize_return(fetched, t, -1)
        ELSE IF t.pos = EndOf(t)
        THEN IF t.buf_state # BUFFER_IS_FILEEND THEN tokenize_return(fetched, t, -1)
             ELSE IF t.state \in TOKENIZE_OUTSIDE_FIELD
             THEN tokenize_return(fetched, finish(t), 1)
             ELSE [fetched EXCEPT !.ts = [t EXCEPT !.state = TOKENIZE_FINALIZE_FILE],
                                  !.loc = [m.loc EXCEPT !.pos = t.pos],
                                  !.pc = "switch"]
        ELSE [fetched EXCEPT !.ts = t, !.loc = [m.loc EXCEPT !.pos = t.pos],
                             !.pc = "switch"]

\* The end of a turn of the loop: r is what the switch gave and done what
\* the copy of the chunk and the finalizing of the field made of it.
tokenize_switched(m, r, done) ==
    IF r.finish THEN tokenize_return(m, finish(r.t), r.l.res)
    ELSE [m EXCEPT !.ts = done.t, !.loc = done.l, !.pc = "loop"]

\* The switch, the copy of the chunk and the finalizing of the field.
tokenize_switch(m, config) ==
    LET r == switch(m.ts, m.loc, config)
    IN  tokenize_switched(m, r, finalize_field(copy_chunk(r)))

\* Whether the top of the loop fetches.
NeedsFetch(m) == m.pc = "loop" /\ m.loc.pos >= EndOf(m.ts)

\* One step of the machine.
tokenize_step(m, config) ==
    IF m.pc = "call" THEN tokenize_enter(m)
    ELSE IF NeedsFetch(m) THEN tokenize_fetch(m)
    ELSE tokenize_switch(m, config)

\* The machine before the first call, on a stream holding chunks.
Machine(chunks) ==
    [ts |-> tokenizer_init, loc |-> NoLocals, strm |-> chunks, pc |-> "call",
     rets |-> <<>>, eofcalls |-> 0]

\* What the calls return when the machine is run to its end.
RECURSIVE Run(_, _)
Run(m, config) == IF m.pc = "done" THEN m.rets ELSE Run(tokenize_step(m, config), config)

\* ------------------------------------------------------------------------
\* file_buffer (stream_file.c): the byte stream read_rows skips lines on
\* ------------------------------------------------------------------------

STREAM_EOF == "STREAM_EOF"
STREAM_ERROR == "STREAM_ERROR"

\* fread: at most n bytes of the file from its position on.
fread(file, file_pos, n) == SubSeq(file, file_pos + 1, Min({Len(file), file_pos + n}))

\* The fail_at of a file that is read to its end without an error.
NoFailure == -1

\* stream_file: the file_buffer of a file opened at its start.  buffer holds
\* the last_pos bytes that are valid.  The first fail_at bytes of the file
\* can be read; every read past them fails and sets the error indicator of
\* the FILE, ferror.
stream_file(file, buffer_size) ==
    [file |-> file, file_pos |-> 0, line_number |-> 1, reached_eof |-> FALSE,
     current_buffer_pos |-> 0, last_pos |-> 0, buffer_size |-> buffer_size,
     buffer |-> <<>>, fail_at |-> NoFailure, ferror |-> FALSE]

\* Whether _fb_load reads from the file.
_fb_load_reads(fb) ==
    /\ ~fb.reached_eof
    /\ \/ fb.current_buffer_pos = fb.last_pos
       \/ fb.current_buffer_pos + 1 = fb.last_pos

\* The bytes of the file that a read can get.
Readable(fb) ==
    IF fb.fail_at = NoFailure THEN fb.file ELSE SubSeq(fb.file, 1, fb.fail_at)

\* _fb_load: refill the buffer when at most one byte of it is unread, keeping
\* that byte at the front.  A short read is the end of the file when feof
\* tells so.
_fb_load(fb) ==
    IF _fb_load_reads(fb)
    THEN LET k == fb.last_pos - fb.current_buffer_pos
             kept == IF k # 0 THEN <<fb.buffer[fb.current_buffer_pos + 1]>> ELSE <<>>
             read == fread(Readable(fb), fb.file_pos, fb.buffer_size - k)
             num_read == Len(read)
         IN  [fb EXCEPT !.buffer = kept \o read,
                        !.file_pos = @ + num_read,
                        !.current_buffer_pos = 0,
                        !.last_pos = num_read + k,
                        !.reached_eof = num_read < fb.buffer_size - k
                                        /\ fb.fail_at = NoFailure,
                        !.ferror = fb.ferror
                                   \/ (num_read < fb.buffer_size - k
                                       /\ fb.fail_at # NoFailure)]
    ELSE fb

\* _fb_load returns STREAM_ERROR, not 0: a short read that was not the end
\* of the file.
_fb_load_fails(fb) ==
    /\ _fb_load_reads(fb)
    /\ fb.fail_at # NoFailure
    /\ Len(fread(Readable(fb), fb.file_pos,
                 fb.buffer_size - (fb.last_pos - fb.current_buffer_pos)))
           < fb.buffer_size - (fb.last_pos - fb.current_buffer_pos)

\* Whether the next two bytes of the buffer are "\r\n".
AtCRLF(fb) ==
    /\ fb.current_buffer_pos + 1 < fb.last_pos
    /\ fb.buffer[fb.current_buffer_pos + 1] = CR
    /\ fb.buffer[fb.current_buffer_pos + 2] = LF

\* fb_fetch: the next character, consumed; "\r\n" is fetched as one '\n'.
fb_fetch(fb) ==
    LET b == _fb_load(fb)
        cur == b.current_buffer_pos
        c == IF AtCRLF(b) THEN LF ELSE b.buffer[cur + 1]
        line_number == IF c = LF THEN b.line_number + 1 ELSE b.line_number
    IN  IF _fb_load_fails(fb) THEN [fb |-> b, c |-> STREAM_ERROR]
        ELSE IF cur = b.last_pos THEN [fb |-> b, c |-> STREAM_EOF]
        ELSE [fb |-> [b EXCEPT !.current_buffer_pos = IF AtCRLF(b) THEN cur + 2 ELSE cur + 1,
                               !.line_number = line_number],
              c |-> c]

\* fb_next: the next character, not consumed.
fb_next(fb) ==
    LET b == _fb_load(fb)
    IN  IF b.current_buffer_pos = b.last_pos THEN [fb |-> b, c |-> STREAM_EOF]
        ELSE [fb |-> b, c |-> IF AtCRLF(b) THEN LF ELSE b.buffer[b.current_buffer_pos + 1]]

\* fb_skipline: consume characters through the next '\n', or to the end of
\* the file.
RECURSIVE fb_skipline(_)
fb_skipline(fb) ==
    LET n == fb_next(fb)
    IN  IF n.c = LF THEN fb_fetch(n.fb).fb
        ELSE IF n.c = STREAM_EOF THEN n.fb
        ELSE fb_skipline(fb_fetch(n.fb).fb)

\* Whether the loop of fb_skipline never ends: fb_fetch returns
\* STREAM_ERROR, which the loop does not look at, and consumes nothing, so
\* that fb_next gives the same character again.
RECURSIVE fb_skipline_loops(_)
fb_skipline_loops(fb) ==
    LET n == fb_next(fb)
        f == fb_fetch(n.fb)
    IN  IF n.c = LF \/ n.c = STREAM_EOF THEN FALSE
        ELSE IF f.c = STREAM_ERROR THEN TRUE
        ELSE fb_skipline_loops(f.fb)

\* One turn of the loop of fb_skiplines: skip a line, then stop at the end of
\* the file or count the line.  hangs tells that fb_skipline does not
\* return.
fb_skiplines(fb, num_lines) ==
    LET n == fb_next(fb_skipline(fb))
    IN  IF fb_skipline_loops(fb)
        THEN [fb |-> fb, num_lines |-> num_lines, break |-> FALSE, hangs |-> TRUE]
        ELSE IF n.c = STREAM_EOF
        THEN [fb |-> n.fb, num_lines |-> num_lines, break |-> TRUE, hangs |-> FALSE]
        ELSE [fb |-> n.fb, num_lines |-> num_lines - 1, break |-> FALSE, hangs |-> FALSE]

\* The chunks the tokenizer is handed for the rest of the file: the unread
\* bytes of the buffer, then one chunk per refill; a refill that fails is
\* handed on as an error.
RECURSIVE fb_nextbuf(_)
fb_nextbuf(fb) ==
    LET b == _fb_load(fb)
    IN  IF _fb_load_fails(fb) THEN <<[data |-> <<>>, status |-> "ERROR"]>>
        ELSE IF b.current_buffer_pos = b.last_pos THEN <<>>
        ELSE <<[data |-> SubSeq(b.buffer, b.current_buffer_pos + 1, b.last_pos),
                status |-> BUFFER_MAY_CONTAIN_NEWLINE]>>
             \o fb_nextbuf([b EXCEPT !.current_buffer_pos = b.last_pos])

\* ------------------------------------------------------------------------
\* read_rows (rows.c)
\* ------------------------------------------------------------------------

\* read_error->error_type; ERROR_OK is the 0 that read_rows starts from.
ERROR_OK == "ERROR_OK"
ERROR_CHANGED_NUMBER_OF_FIELDS == "ERROR_CHANGED_NUMBER_OF_FIELDS"
ERROR_INVALID_COLUMN_INDEX == "ERROR_INVALID_COLUMN_INDEX"
ERROR_CONVERTER_FAILED == "ERROR_CONVERTER_FAILED"
ERROR_BAD_FIELD == "ERROR_BAD_FIELD"

\* A pointer that is NULL, and one to the cells it holds.
NULL == [null |-> TRUE, at |-> <<>>]
Ptr(cells) == [null |-> FALSE, at |-> cells]

\* The field type of the read: unicode strings of MaxChars characters.  A
\* structured schema of num_field_types fields has this type in every field.
field_types == <<[typecode |-> "U", itemsize |-> 4 * MaxChars]>>

\* The number of bytes of a row of the output.
compute_row_size(actual_num_fields, num_field_types) ==
    IF num_field_types = 1 THEN actual_num_fields * field_types[1].itemsize
    ELSE num_field_types * field_types[1].itemsize

\* The converters argument: Py_None, or a dict from column keys to objects.
Py_None == [none |-> TRUE, dict |-> <<>>]
PyDict(d) == [none |-> FALSE, dict |-> d]

\* The objects a converters dict holds: the callables f and g, which put
\* their name before the token they are given, and an object that cannot
\* be called.
Callables == {"f", "g"}
NotCallable == "x"

\* The entry of conv_funcs that calloc left NULL.
NO_FUNC == "NULL"

\* PyDict_GetItem(converters, key): the object, or NULL.
PyDict_GetItem(dict, key) == IF key \in DOMAIN dict THEN dict[key] ELSE NO_FUNC

\* The array of converter functions of the output columns: the object at
\* the key of the column of the file, or else the one at that key less
\* current_num_fields.
create_conv_funcs(converters, usecols, num_usecols, current_num_fields) ==
    Ptr([j \in 1..num_usecols |->
            LET k == IF usecols.null THEN j - 1 ELSE usecols.at[j]
                func == PyDict_GetItem(converters.dict, k)
            IN  IF func # NO_FUNC THEN func
                ELSE PyDict_GetItem(converters.dict, k - current_num_fields)])

\* The references create_conv_funcs took with Py_INCREF, one for each entry
\* of conv_funcs that is not NULL.
conv_references(conv_funcs) ==
    SelectSeq(conv_funcs.at, LAMBDA func : func # NO_FUNC)

\* call_converter_function(func, token): the object the call returns, or
\* NULL when the call raises.
call_converter_function(func, token) ==
    IF func \in Callables THEN Ptr(<<func>> \o token) ELSE NULL

\* What read_rows holds of what it acquired: the token array of the row,
\* the array conv_funcs, the references in it, the objects the converters
\* returned, the blocks and the memory it allocated for data_array.
NothingHeld ==
    [result |-> FALSE, conv_funcs |-> FALSE, references |-> <<>>,
     converted |-> 0, blks |-> FALSE, data_array |-> FALSE]

\* The copy of a field into a 'U' cell: at most itemsize/4 characters.
set_U(word, itemsize) == SubSeq(word, 1, Min({Len(word), itemsize \div 4}))

\* A row of memory that nothing was written to, and a cell of one.
JunkCell == <<JUNK>>
JunkRow == <<JunkCell>>

\* The memory of n rows that malloc or PyArray_SimpleNewFromDescr hands out.
malloc(n) == Ptr([i \in 1..n |-> JunkRow])

\* bool use_blocks; is declared without a value.
UNINITIALIZED == "uninitialized"

\* The locals and arguments of read_rows at its entry.  nrows < 0 reads the
\* whole file, the rows are kept in blocks and data_array is ignored;
\* nrows >= 0 reads at most nrows rows into data_array.  usecols_arg and
\* nrows_arg keep the values the caller passed; buf is the memory that
\* data_array pointed to when read_rows returned, arr the array of the
\* caller; past_end tells that a row was written past the memory of
\* data_array.
read_rows_args(nrows, usecols, skiplines, data_array) ==
    [pc |-> "skiplines", skiplines |-> skiplines, num_lines |-> skiplines,
     usecols |-> usecols, usecols_arg |-> usecols,
     num_usecols |-> Len(usecols.at), nrows |-> nrows, nrows_arg |-> nrows,
     row_count |-> 0,
     actual_num_fields |-> -1, error_type |-> ERROR_OK, line_number |-> 0,
     column_index |-> 0, use_blocks |-> UNINITIALIZED, past_end |-> FALSE,
     blks |-> <<>>, result |-> NULL, data_array |-> data_array,
     buf |-> data_array.at, arr |-> NULL,
     num_field_types |-> 1, converters |-> Py_None, conv_funcs |-> NULL,
     num_cols |-> -1, row_size |-> 0, held |-> NothingHeld]

\* read_rows as _readtext_from_stream enters it when a dtype was given.
read_rows_enter(usecols, skiplines) == read_rows_args(-1, usecols, skiplines, NULL)

\* The reader: the file_buffer, the tokenizer and read_rows' own state.
Reader(file, buffer_size, usecols, skiplines) ==
    [fb |-> stream_file(file, buffer_size),
     m |-> Machine(<<>>),
     rr |-> read_rows_enter(usecols, skiplines)]

\* The reader of at most nrows rows into data_array.
ReaderOf(file, buffer_size, nrows, usecols, skiplines, data_array) ==
    [fb |-> stream_file(file, buffer_size),
     m |-> Machine(<<>>),
     rr |-> read_rows_args(nrows, usecols, skiplines, data_array)]

\* stream_skiplines(s, skiplines): one turn of its loop.
read_rows_skipline(r) ==
    LET s == fb_skiplines(r.fb, r.rr.num_lines)
    IN  [r EXCEPT !.fb = s.fb, !.rr.num_lines = s.num_lines,
                  !.rr.pc = IF s.hangs THEN "hang"
                            ELSE IF s.break THEN "peek" ELSE "skiplines"]

\* read_rows_peek with the end-of-file test left out.
read_rows_peek_unchecked(r) ==
    LET n == fb_next(r.fb)
    IN  [r EXCEPT !.fb = n.fb, !.m.strm = fb_nextbuf(n.fb), !.rr.pc = "loop"]

\* After the lines were skipped: at the end of the file the read is over,
\* with no row and no error; else the tokenizer reads the rest of the file.
read_rows_peek(r) ==
    LET n == fb_next(r.fb)
    IN  IF n.c = STREAM_EOF
        THEN [r EXCEPT !.fb = n.fb, !.rr.nrows = 0,
                       !.rr.data_array = IF r.rr.nrows < 0 THEN NULL ELSE r.rr.data_array,
                       !.rr.pc = "done"]
        ELSE [r EXCEPT !.fb = n.fb, !.m.strm = fb_nextbuf(n.fb), !.rr.pc = "loop"]

\* One call of tokenize(), run to its return.
RECURSIVE tokenize_call(_, _, _)
tokenize_call(m, calls, config) ==
    IF Len(m.rets) > calls THEN m
    ELSE tokenize_call(tokenize_step(m, config), calls, config)

\* The tokenize() of the row reader: the fields of the next row that has
\* any, or NULL at the end of the file.
RECURSIVE tokenize_row(_, _)
tokenize_row(m, config) ==
    LET after == tokenize_call([m EXCEPT !.pc = "call"], Len(m.rets), config)
        ret == after.rets[Len(after.rets)]
    IN  IF ret.res < 0 THEN [m |-> after, result |-> NULL]
        ELSE IF ret.fields # <<>> THEN [m |-> after, result |-> Ptr([j \in 1..Len(ret.fields) |-> ret.fields[j].text])]
        ELSE IF ret.res = 1 THEN [m |-> after, result |-> NULL]
        ELSE tokenize_row(after, config)

\* The number of characters of the file that the tokenizer went past.
consumed(r) ==
    LET rest == fb_nextbuf(r.fb)
    IN  Len(Flatten([i \in 1..Len(rest) |-> rest[i].data]))
        - Len(Flatten([i \in 1..Len(r.m.strm) |-> r.m.strm[i].data]))
        - (EndOf(r.m.ts) - r.m.ts.pos)

\* The file_buffer after the fetches that take n characters of the file.
RECURSIVE fb_fetches(_, _)
fb_fetches(fb, n) ==
    LET f == fb_fetch(fb)
    IN  IF n <= 0 \/ f.c = STREAM_EOF THEN fb
        ELSE fb_fetches(f.fb, n - (IF AtCRLF(_fb_load(fb)) THEN 2 ELSE 1))

\* stream_linenumber(s): the line counter of the file_buffer, one more than
\* the number of '\n' that were fetched.
stream_linenumber(r) == fb_fetches(r.fb, consumed(r)).line_number

\* The values that reading use_blocks can give.
read_use_blocks(use_blocks) ==
    IF use_blocks = UNINITIALIZED THEN {"true", "false"} ELSE {use_blocks}

\* The rows of the blocks in one piece of memory.
blocks_to_contiguous(blks, row_count) == Ptr(SubSeq(blks, 1, row_count))

\* Leaving the loop, use_blocks being read as given: the blocks become the
\* array, *nrows the row count; an error returns NULL.
read_rows_exit(r, use_blocks) ==
    LET ok == r.rr.error_type = ERROR_OK
        data_array == IF use_blocks = "true" /\ ok
                      THEN blocks_to_contiguous(r.rr.blks, r.rr.row_count)
                      ELSE r.rr.data_array
    IN  [r EXCEPT !.rr.nrows = r.rr.row_count,
                  !.rr.buf = r.rr.data_array.at,
                  !.rr.data_array = IF ok THEN data_array ELSE NULL,
                  !.rr.held.blks = IF use_blocks = "true" THEN FALSE
                                   ELSE r.rr.held.blks,
                  !.rr.pc = "done"]

\* The column of the file that output column j reads, for a row of
\* current_num_fields fields.
read_rows_k(usecols, j, current_num_fields) ==
    IF usecols.null THEN j - 1
    ELSE IF usecols.at[j] < 0 THEN usecols.at[j] + current_num_fields
    ELSE usecols.at[j]

\* usecols after the first row: negative values get the first row's field
\* count added, in the caller's array.
read_rows_normalize(usecols, current_num_fields) ==
    IF usecols.null THEN usecols
    ELSE Ptr([j \in 1..Len(usecols.at) |->
                IF usecols.at[j] < 0 THEN usecols.at[j] + current_num_fields
                ELSE usecols.at[j]])

\* The condition of the loop of read_rows: result = tokenize(...).
read_rows_tokenize(r, config) ==
    LET tok == tokenize_row(r.m, config)
    IN  [r EXCEPT !.m = tok.m, !.rr.result = tok.result,
                  !.rr.held.result = ~tok.result.null, !.rr.pc = "row"]

\* store_row that writes every row at the start of data_array.
store_row_at_start(data_array, row_count, row) ==
    IF 0 < Len(data_array.at) THEN Ptr([data_array.at EXCEPT ![1] = row])
    ELSE data_array

\* The cells of a row written at data_ptr, which stands row_count rows into
\* data_array; a write past its memory leaves data_array as it is.
store_row(data_array, row_count, row) ==
    IF row_count < Len(data_array.at)
    THEN Ptr([data_array.at EXCEPT ![row_count + 1] = row])
    ELSE data_array

\* Output column j of a row: the error of the column and the cell as the
\* column leaves it.  k is the column of the file and func the entry of
\* conv_funcs; the cell is cleared before a converted value is looked at,
\* and keeps what it held when the column is left before that.
read_rows_column(usecols, k, func, token, current_num_fields) ==
    LET itemsize == field_types[1].itemsize
        converted == call_converter_function(func, token)
    IN  IF ~usecols.null /\ (k < 0 \/ k >= current_num_fields)
        THEN [error |-> ERROR_INVALID_COLUMN_INDEX, cell |-> JunkCell, converted |-> 0]
        ELSE IF func # NO_FUNC /\ converted.null
        THEN [error |-> ERROR_CONVERTER_FAILED, cell |-> JunkCell, converted |-> 0]
        ELSE IF func # NO_FUNC /\ 4 * Len(converted.at) > itemsize
        THEN [error |-> ERROR_BAD_FIELD, cell |-> <<>>, converted |-> 1]
        ELSE IF func # NO_FUNC
        THEN [error |-> ERROR_OK, cell |-> converted.at, converted |-> 1]
        ELSE IF k < current_num_fields
        THEN [error |-> ERROR_OK, cell |-> set_U(token, itemsize), converted |-> 0]
        ELSE [error |-> ERROR_OK, cell |-> <<>>, converted |-> 0]

\* The body of the loop of read_rows, on the row in result.
read_rows_row(r) ==
    LET rr == r.rr
        current_num_fields == Len(rr.result.at)
        first == rr.actual_num_fields = -1
        use_blocks == IF ~first THEN rr.use_blocks
                      ELSE IF rr.nrows < 0 THEN "true" ELSE "false"
        data_array == IF first /\ rr.nrows >= 0 /\ rr.data_array.null
                      THEN malloc(rr.nrows) ELSE rr.data_array
        line_number == stream_linenumber(r)
        actual_num_fields ==
            IF ~first THEN rr.actual_num_fields
            ELSE IF rr.num_field_types > 1 THEN rr.num_field_types
            ELSE IF ~rr.usecols.null THEN rr.num_usecols
            ELSE current_num_fields
        num_usecols == IF first /\ rr.usecols.null THEN actual_num_fields ELSE rr.num_usecols
        usecols == IF first THEN read_rows_normalize(rr.usecols, current_num_fields)
                   ELSE rr.usecols
        conv_funcs == IF first /\ ~rr.converters.none
                      THEN create_conv_funcs(rr.converters, usecols, num_usecols,
                                             current_num_fields)
                      ELSE rr.conv_funcs
        k == [j \in 1..num_usecols |-> read_rows_k(usecols, j, current_num_fields)]
        cols == [j \in 1..num_usecols |->
                    read_rows_column(usecols, k[j],
                                     IF conv_funcs.null THEN NO_FUNC ELSE conv_funcs.at[j],
                                     IF k[j] >= 0 /\ k[j] < current_num_fields
                                     THEN rr.result.at[k[j] + 1] ELSE <<>>,
                                     current_num_fields)]
        invalid == {j \in 1..num_usecols : cols[j].error # ERROR_OK}
        row == [j \in 1..num_usecols |->
                   IF invalid # {} /\ j > Min(invalid) THEN JunkCell
                   ELSE cols[j].cell]
        converted == IF usecols.null /\ actual_num_fields # current_num_fields THEN 0
                     ELSE Cardinality({j \in 1..num_usecols :
                                          /\ invalid = {} \/ j <= Min(invalid)
                                          /\ cols[j].converted = 1})
        held == [result |-> usecols.null /\ actual_num_fields # current_num_fields,
                 conv_funcs |-> ~conv_funcs.null,
                 references |-> conv_references(conv_funcs),
                 converted |-> rr.held.converted + converted,
                 blks |-> use_blocks = "true",
                 data_array |-> rr.held.data_array
                                \/ (first /\ rr.nrows >= 0 /\ rr.data_array.null)]
        written == IF use_blocks = "true" THEN data_array
                   ELSE store_row(data_array, rr.row_count, row)
        past_end == rr.past_end
                    \/ (use_blocks = "false" /\ rr.row_count >= Len(data_array.at))
        read == [r EXCEPT !.rr.actual_num_fields = actual_num_fields,
                          !.rr.num_usecols = num_usecols,
                          !.rr.usecols = usecols,
                          !.rr.conv_funcs = conv_funcs,
                          !.rr.num_cols = IF first THEN actual_num_fields ELSE rr.num_cols,
                          !.rr.row_size = IF first
                                          THEN compute_row_size(actual_num_fields,
                                                                rr.num_field_types)
                                          ELSE rr.row_size,
                          !.rr.held = held,
                          !.rr.use_blocks = use_blocks,
                          !.rr.data_array = data_array]
    IN  IF usecols.null /\ actual_num_fields # current_num_fields
        THEN [read EXCEPT !.rr.error_type = ERROR_CHANGED_NUMBER_OF_FIELDS,
                          !.rr.line_number = line_number,
                          !.rr.column_index = current_num_fields,
                          !.rr.buf = data_array.at,
                          !.rr.data_array = NULL,
                          !.rr.held.blks = FALSE,
                          !.rr.pc = "done"]
        ELSE IF invalid # {}
        THEN read_rows_exit([read EXCEPT !.rr.error_type = cols[Min(invalid)].error,
                                         !.rr.line_number = line_number - 1,
                                         !.rr.column_index =
                                             IF cols[Min(invalid)].error
                                                = ERROR_INVALID_COLUMN_INDEX
                                             THEN usecols.at[Min(invalid)]
                                             ELSE rr.column_index,
                                         !.rr.past_end = past_end,
                                         !.rr.data_array = written],
                            use_blocks)
        ELSE [read EXCEPT !.rr.blks = IF use_blocks = "true" THEN Append(rr.blks, row)
                                      ELSE rr.blks,
                          !.rr.line_number = IF num_usecols > 0 THEN line_number - 1
                                             ELSE rr.line_number,
                          !.rr.data_array = written,
                          !.rr.past_end = past_end,
                          !.rr.row_count = rr.row_count + 1,
                          !.rr.pc = "loop"]

\* read_rows_more that lets the loop run once more at row_count = *nrows.
read_rows_more_inclusive(r) == r.rr.nrows < 0 \/ r.rr.row_count <= r.rr.nrows

\* Whether the loop of read_rows may read one more row.
read_rows_more(r) == r.rr.nrows < 0 \/ r.rr.row_count < r.rr.nrows

\* The steps read_rows can take next.
read_rows_step(r, config) ==
    IF r.rr.pc = "skiplines" /\ r.rr.num_lines > 0 THEN {read_rows_skipline(r)}
    ELSE IF r.rr.pc \in {"skiplines", "peek"} THEN {read_rows_peek(r)}
    ELSE IF r.rr.pc = "loop" /\ read_rows_more(r) THEN {read_rows_tokenize(r, config)}
    ELSE IF r.rr.pc = "loop" \/ r.rr.result.null
    THEN {read_rows_exit(r, b) : b \in read_use_blocks(r.rr.use_blocks)}
    ELSE {read_rows_row(r)}

\* read_rows run to its return: the readers it can return with.
RECURSIVE read_rows(_, _)
read_rows(r, config) ==
    IF r.rr.pc \in {"done", "hang"} THEN {r}
    ELSE UNION {read_rows(s, config) : s \in read_rows_step(r, config)}

\* _readtext_from_stream after read_rows returned.  The array made before
\* the call, whose memory read_rows wrote to, is returned as it is; without
\* one, the array is made of the result and *nrows rows, of new memory when
\* the result is NULL, and is NULL when the number of rows is negative.
_readtext_from_stream(r) ==
    LET rr == r.rr
        arr == IF rr.nrows_arg >= 0 THEN Ptr(rr.buf)
               ELSE IF rr.nrows < 0 THEN NULL
               ELSE IF rr.data_array.null THEN malloc(rr.nrows)
               ELSE rr.data_array
    IN  [r EXCEPT !.rr.arr = arr, !.rr.pc = "returned"]

\* ------------------------------------------------------------------------
\* str_to_int.h, str_to_int.c, conversions.c: the parsers of a field
\* ------------------------------------------------------------------------

\* A token is the sequence of its code points, str its first position and
\* end the position after its last; the position end holds a NUL.
At(str, p) == IF p >= 1 /\ p <= Len(str) THEN str[p] ELSE NUL

Py_UNICODE_ISSPACE(c) == c \in {" ", "\t"}

Digits == <<"0", "1", "2", "3", "4", "5", "6", "7", "8", "9">>

isdigit(c) == \E i \in 1..10 : Digits[i] = c

\* d - '0'
DigitValue(d) == (CHOOSE i \in 1..10 : Digits[i] = d) - 1

\* The code points a char cannot hold as ASCII: *str >= 128.
NonASCII == {"é", "€"}

\* The code points a Py_UCS1 cannot hold: *c > 255.
Above255 == {"€"}

\* The division and the remainder of C, which round towards zero.
c_div(a, b) == IF a >= 0 THEN a \div b ELSE -((-a) \div b)
c_mod(a, b) == a - b * c_div(a, b)

INT8_MIN == -128
INT8_MAX == 127
INT16_MIN == -32768
INT16_MAX == 32767
UINT8_MAX == 255
UINT16_MAX == 65535

\* while (Py_UNICODE_ISSPACE(*p)) ++p;
RECURSIVE skip_spaces(_, _)
skip_spaces(str, p) ==
    IF Py_UNICODE_ISSPACE(At(str, p)) THEN skip_spaces(str, p + 1) ELSE p

\* The loop over the digits of a negative number.
RECURSIVE digits_neg(_, _, _, _, _)
digits_neg(str, p, number, pre_min, dig_pre_min) ==
    LET d == At(str, p)
    IN  IF ~isdigit(d) THEN [ok |-> TRUE, p |-> p, number |-> number]
        ELSE IF number > pre_min \/ (number = pre_min /\ DigitValue(d) <= dig_pre_min)
        THEN digits_neg(str, p + 1, number * 10 - DigitValue(d), pre_min, dig_pre_min)
        ELSE [ok |-> FALSE, p |-> p, number |-> number]

\* The loop over the digits of a number that is not negative.
RECURSIVE digits_pos(_, _, _, _, _)
digits_pos(str, p, number, pre_max, dig_pre_max) ==
    LET d == At(str, p)
    IN  IF ~isdigit(d) THEN [ok |-> TRUE, p |-> p, number |-> number]
        ELSE IF number < pre_max \/ (number = pre_max /\ DigitValue(d) <= dig_pre_max)
        THEN digits_pos(str, p + 1, number * 10 + DigitValue(d), pre_max, dig_pre_max)
        ELSE [ok |-> FALSE, p |-> p, number |-> number]

\* isdigit(c) is defined for the values of an unsigned char; for a code
\* point above 255 its behaviour is undefined.
isdigit_undefined(c) == c \in Above255

\* Whether a call of isdigit was undefined: the calls are the check of the
\* first digit, at p, and those of the loop over the digits.
digits_undefined(str, p, loop) ==
    \/ isdigit_undefined(At(str, p))
    \/ isdigit(At(str, p)) /\ loop.ok /\ isdigit_undefined(At(str, loop.p))

\* What the integer parsers hand back: ret and result are those of a build
\* whose isdigit holds of '0'..'9' alone; undefined tells that a call of
\* isdigit had undefined behaviour, so that another build may differ.
IntResult(ret, result, undefined) ==
    [ret |-> ret, result |-> result, undefined |-> undefined]

str_to_int64(p_item, p_end, int_min, int_max) ==
    LET p1 == skip_spaces(p_item, 1)
        isneg == At(p_item, p1) = "-"
        p2 == IF At(p_item, p1) \in {"-", "+"} THEN p1 + 1 ELSE p1
        loop == IF isneg
                THEN digits_neg(p_item, p2, 0, c_div(int_min, 10), -c_mod(int_min, 10))
                ELSE digits_pos(p_item, p2, 0, c_div(int_max, 10), c_mod(int_max, 10))
        undefined == digits_undefined(p_item, p2, loop)
    IN  IF ~isdigit(At(p_item, p2)) THEN IntResult(-1, 0, undefined)
        ELSE IF ~loop.ok THEN IntResult(-1, 0, undefined)
        ELSE IF skip_spaces(p_item, loop.p) # p_end THEN IntResult(-1, 0, undefined)
        ELSE IntResult(0, loop.number, undefined)

str_to_uint64(p_item, p_end, uint_max) ==
    LET p1 == skip_spaces(p_item, 1)
        p2 == IF At(p_item, p1) = "+" THEN p1 + 1 ELSE p1
        loop == digits_pos(p_item, p2, 0, c_div(uint_max, 10), c_mod(uint_max, 10))
        undefined == digits_undefined(p_item, p2, loop)
    IN  IF At(p_item, p1) = "-" THEN IntResult(-1, 0, FALSE)
        ELSE IF ~isdigit(At(p_item, p2)) THEN IntResult(-1, 0, undefined)
        ELSE IF ~loop.ok THEN IntResult(-1, 0, undefined)
        ELSE IF skip_spaces(p_item, loop.p) # p_end THEN IntResult(-1, 0, undefined)
        ELSE IntResult(0, loop.number, undefined)

\* A double: its sign, the whole part of its magnitude, which is FloatCap
\* for every magnitude from FloatCap on, and whether it has a fraction.
Double(neg, int, frac) == [neg |-> neg, int |-> int, frac |-> frac]

\* m * 10^s, for s >= 0.
RECURSIVE mul10(_, _)
mul10(m, s) ==
    IF m >= FloatCap THEN FloatCap
    ELSE IF s = 0 \/ m = 0 THEN m
    ELSE mul10(m * 10, s - 1)

\* m / 10^s, for s >= 0: the whole part, and whether a fraction is left.
RECURSIVE div10(_, _, _)
div10(m, s, frac) ==
    IF s = 0 \/ m = 0 THEN [int |-> m, frac |-> frac]
    ELSE div10(m \div 10, s - 1, frac \/ (m % 10) # 0)

\* The position after the digits from p on.
RECURSIVE span_digits(_, _)
span_digits(s, p) == IF isdigit(At(s, p)) THEN span_digits(s, p + 1) ELSE p

\* The number that the digits s[p], ..., s[q - 1] spell, FloatCap at most.
RECURSIVE decimal(_, _, _, _)
decimal(s, p, q, number) ==
    IF p >= q THEN number
    ELSE decimal(s, p + 1, q, Min({FloatCap, number * 10 + DigitValue(s[p])}))

\* The exponent of a number whose mantissa ends before f_end: e or E, an
\* optional sign and digits; end is the position after what is converted.
strtod_exponent(s, f_end) ==
    LET e1 == IF At(s, f_end + 1) \in {"+", "-"} THEN f_end + 2 ELSE f_end + 1
        e_end == span_digits(s, e1)
    IN  IF At(s, f_end) \in {"e", "E"} /\ e_end > e1
        THEN [end |-> e_end,
              exponent |-> IF At(s, f_end + 1) = "-" THEN -decimal(s, e1, e_end, 0)
                           ELSE decimal(s, e1, e_end, 0)]
        ELSE [end |-> f_end, exponent |-> 0]

\* m * 10^scale: the whole part, and whether a fraction is left.
strtod_scale(m, scale) ==
    IF scale >= 0 THEN [int |-> mul10(m, scale), frac |-> FALSE]
    ELSE div10(m, -scale, FALSE)

\* The number with the whole digits s[p1], ..., s[i_end - 1], the nfrac
\* digits of the fraction that end before f_end, and the exponent e.
strtod_number(s, p1, i_end, f_end, nfrac, e) ==
    LET value == strtod_scale(decimal(SubSeq(s, p1, i_end - 1)
                                          \o SubSeq(s, i_end + 1, f_end - 1),
                                      1, (i_end - p1) + nfrac + 1, 0),
                              e.exponent - nfrac)
    IN  IF i_end > p1 \/ nfrac > 0
        THEN [ok |-> TRUE, parsed |-> e.end - 1,
              result |-> Double(At(s, 1) = "-", value.int, value.frac)]
        ELSE [ok |-> FALSE, parsed |-> 0, result |-> Double(TRUE, 1, FALSE)]

\* The point and the digits of the fraction, after the whole digits that
\* end before i_end.
strtod_fraction(s, p1, i_end) ==
    LET f_end == IF At(s, i_end) = "." THEN span_digits(s, i_end + 1) ELSE i_end
    IN  strtod_number(s, p1, i_end, f_end,
                      IF At(s, i_end) = "." THEN f_end - (i_end + 1) ELSE 0,
                      strtod_exponent(s, f_end))

\* PyOS_string_to_double(s, &end_parsed, NULL): the longest start of s that
\* spells a decimal number, [sign] digits [. digits] [e [sign] digits] with
\* a digit before or after the point, is converted; parsed is the number of
\* characters converted, and the call fails when there is no such start.
PyOS_string_to_double(s) ==
    LET p1 == IF At(s, 1) \in {"+", "-"} THEN 2 ELSE 1
    IN  strtod_fraction(s, p1, span_digits(s, p1))

\* The number of code points from str on, before end, up to the first one
\* that is not ASCII.
RECURSIVE ascii_len(_, _, _)
ascii_len(token, str, end) ==
    IF str >= end \/ At(token, str) \in NonASCII THEN 0
    ELSE 1 + ascii_len(token, str + 1, end)

\* The end of double_from_ucs4: d is what PyOS_string_to_double made of the
\* n characters copied from str on, and p_end is rewound by the characters
\* that were not parsed.
double_from_ucs4_parsed(token, str, end0, skip_trailing_whitespace, n, d) ==
    IF str = end0 \/ ~d.ok THEN [ret |-> -1, result |-> d.result, p_end |-> end0]
    ELSE [ret |-> 0, result |-> d.result,
          p_end |-> IF skip_trailing_whitespace
                    THEN skip_spaces(token, end0 - (n - d.parsed))
                    ELSE end0 - (n - d.parsed)]

\* The copy of the code points from str on into the ASCII buffer, up to the
\* first one that is not ASCII, and its conversion.
double_from_ucs4_copy(token, str, end0, skip_trailing_whitespace, n) ==
    double_from_ucs4_parsed(token, str, end0, skip_trailing_whitespace, n,
                            PyOS_string_to_double(SubSeq(token, str, str + n - 1)))

\* The code points from str on, after the leading whitespace.
double_from_ucs4_skipped(token, str, end0, skip_trailing_whitespace) ==
    double_from_ucs4_copy(token, str, end0, skip_trailing_whitespace,
                          ascii_len(token, str, end0))

\* double_from_ucs4(str, end, skip_trailing_whitespace, &result, &p_end) on
\* the code points of token.
double_from_ucs4(token, str0, end0, skip_trailing_whitespace) ==
    double_from_ucs4_skipped(token, skip_spaces(token, str0), end0,
                             skip_trailing_whitespace)

\* The whole token has to be used by the double d.
whole_token(d, end) ==
    IF d.ret < 0 \/ d.p_end # end THEN [ret |-> -1, stored |-> FALSE, val |-> d.result]
    ELSE [ret |-> 0, stored |-> TRUE, val |-> d.result]

\* to_double and to_float.
to_double(str, end) == whole_token(double_from_ucs4(str, 1, end, TRUE), end)

to_float(str, end) == to_double(str, end)

\* The whole part of a double, its fraction cut off.
Trunc(fx) == IF fx.neg THEN -fx.int ELSE fx.int

\* (intw_t) fx: the whole part of fx when the type holds it; the behaviour
\* is undefined when it does not, and the value may be any, among them the
\* ends of the type, 0 and the whole part taken modulo the size of the type.
CastDouble(fx, lo, hi) ==
    IF Trunc(fx) >= lo /\ Trunc(fx) <= hi THEN {[x |-> Trunc(fx), undefined |-> FALSE]}
    ELSE {[x |-> v, undefined |-> TRUE] :
             v \in {lo, 0, hi, lo + ((Trunc(fx) - lo) % (hi - lo + 1))}}

\* What a parser of a field hands back: its return value, whether it wrote
\* to dataptr, and what it wrote.
NotStored == [ret |-> -1, stored |-> FALSE, x |-> 0, undefined |-> FALSE]
Stored(x, undefined) == [ret |-> 0, stored |-> TRUE, x |-> x, undefined |-> undefined]

\* The body of DECLARE_TO_INT and of DECLARE_TO_UINT after the integer
\* parser returned i: fx is the token read as a double.  Where isdigit was
\* undefined the integer parser may also have taken the token, with any
\* number.
int_or_float(i, fx, lo, hi, pconfig) ==
    (IF i.ret < 0
     THEN IF pconfig.allow_float_for_int
          THEN IF fx.ret < 0 THEN {NotStored}
               ELSE {Stored(c.x, c.undefined) : c \in CastDouble(fx.val, lo, hi)}
          ELSE {NotStored}
     ELSE {Stored(i.result, FALSE)})
    \cup (IF i.undefined THEN {Stored(v, TRUE) : v \in {lo, 0, hi}} ELSE {})

\* DECLARE_TO_INT: the outcomes of to_intw.
to_intw(str, end, int_min, int_max, pconfig) ==
    int_or_float(str_to_int64(str, end, int_min, int_max), to_double(str, end),
                 int_min, int_max, pconfig)

\* DECLARE_TO_UINT: the outcomes of to_uintw.
to_uintw(str, end, uint_max, pconfig) ==
    int_or_float(str_to_uint64(str, end, uint_max), to_double(str, end),
                 0, uint_max, pconfig)

\* to_bool: the token is read as an integer, of 16 bits here, and the cell
\* is set to whether it is not 0.
to_bool(str, end) ==
    LET i == str_to_int64(str, end, INT16_MIN, INT16_MAX)
    IN  (IF i.ret < 0 THEN {NotStored}
         ELSE {Stored(IF i.result # 0 THEN 1 ELSE 0, FALSE)})
        \cup (IF i.undefined THEN {Stored(v, TRUE) : v \in {0, 1}} ELSE {})

to_int8(str, end, pconfig) == to_intw(str, end, INT8_MIN, INT8_MAX, pconfig)
to_int16(str, end, pconfig) == to_intw(str, end, INT16_MIN, INT16_MAX, pconfig)
to_uint8(str, end, pconfig) == to_uintw(str, end, UINT8_MAX, pconfig)
to_uint16(str, end, pconfig) == to_uintw(str, end, UINT16_MAX, pconfig)

\* The closing parenthesis, taken at p when one is open, and the whitespace
\* after it: whether the token ends there.
complex_end(item, token_end, opening_paren, p) ==
    skip_spaces(item, IF opening_paren /\ At(item, p) = ")" THEN p + 1 ELSE p)
        = token_end

\* to_complex_int after the second call of double_from_ucs4 returned im.
complex_imag(item, token_end, imaginary_unit, opening_paren, re, im) ==
    IF im.ret < 0 \/ At(item, im.p_end) # imaginary_unit
    THEN [success |-> FALSE, real |-> Double(FALSE, 0, FALSE),
          imag |-> Double(FALSE, 0, FALSE)]
    ELSE [success |-> complex_end(item, token_end, opening_paren, im.p_end + 1),
          real |-> re.result, imag |-> im.result]

\* to_complex_int after the first call of double_from_ucs4 returned re.
complex_real(item, token_end, imaginary_unit, opening_paren, re) ==
    IF re.ret < 0
    THEN [success |-> FALSE, real |-> Double(FALSE, 0, FALSE),
          imag |-> Double(FALSE, 0, FALSE)]
    ELSE IF re.p_end = token_end
    THEN [success |-> ~opening_paren, real |-> re.result,
          imag |-> Double(FALSE, 0, FALSE)]
    ELSE IF At(item, re.p_end) = imaginary_unit
    THEN [success |-> complex_end(item, token_end, opening_paren, re.p_end + 1),
          real |-> Double(FALSE, 0, FALSE), imag |-> re.result]
    ELSE IF opening_paren /\ At(item, re.p_end) = ")"
    THEN [success |-> skip_spaces(item, re.p_end + 1) = token_end,
          real |-> re.result, imag |-> Double(FALSE, 0, FALSE)]
    ELSE complex_imag(item, token_end, imaginary_unit, opening_paren, re,
                      double_from_ucs4(item,
                                       IF At(item, re.p_end) = "+"
                                       THEN re.p_end + 1 ELSE re.p_end,
                                       token_end, FALSE))

\* to_complex_int after the leading whitespace, which ends before p0.
complex_open(item, token_end, imaginary_unit, opening_paren, p0) ==
    complex_real(item, token_end, imaginary_unit, opening_paren,
                 double_from_ucs4(item, IF opening_paren THEN p0 + 1 ELSE p0,
                                  token_end, FALSE))

\* to_complex_int(item, token_end, &real, &imag, imaginary_unit,
\* allow_parens).
to_complex_int(item, token_end, imaginary_unit, allow_parens) ==
    LET p0 == skip_spaces(item, 1)
    IN  complex_open(item, token_end, imaginary_unit,
                     allow_parens /\ At(item, p0) = "(", p0)

\* to_cdouble and to_cfloat.
to_cdouble(str, end, pconfig) ==
    LET c == to_complex_int(str, end, pconfig.imaginary_unit, TRUE)
    IN  [ret |-> IF c.success THEN 0 ELSE -1, stored |-> c.success,
         real |-> c.real, imag |-> c.imag]

to_cfloat(str, end, pconfig) == to_cdouble(str, end, pconfig)

\* The loop of to_string: c is the place read next, i the byte written next.
RECURSIVE to_string_loop(_, _, _, _, _, _)
to_string_loop(str, c, end, i, length, dataptr) ==
    IF i >= length THEN [ret |-> 0, dataptr |-> dataptr]
    ELSE IF c < end
    THEN IF str[c] \in Above255 THEN [ret |-> -1, dataptr |-> dataptr]
         ELSE to_string_loop(str, c + 1, end, i + 1, length,
                             [dataptr EXCEPT ![i + 1] = str[c]])
    ELSE to_string_loop(str, c, end, i + 1, length, [dataptr EXCEPT ![i + 1] = NUL])

\* to_string(descr, str, end, dataptr, unused): dataptr holds elsize bytes
\* that were not written yet.
to_string(elsize, str, end) ==
    to_string_loop(str, 1, end, 0, elsize, [i \in 1..elsize |-> JUNK])

\* The parser_config of a conversion: the imaginary unit is 'j'.
NumberConfig(allow_float_for_int) ==
    [imaginary_unit |-> "j", allow_float_for_int |-> allow_float_for_int]

\* allow_float_for_int of the default dialect.
DefaultAllowFloatForInt == TRUE

\* A conversion: the token, the parser_config, the parser that ran and what
\* it handed back.
Conversion(str, pconfig) ==
    [pc |-> "call", str |-> str, pconfig |-> pconfig, parser |-> "none",
     ret |-> 0, stored |-> FALSE, x |-> 0, undefined |-> FALSE,
     val |-> Double(FALSE, 0, FALSE), imag |-> Double(FALSE, 0, FALSE),
     elsize |-> 0, dataptr |-> <<>>]

\* No conversion is running.
NoConversion == [Conversion(<<>>, NumberConfig(DefaultAllowFloatForInt)) EXCEPT !.pc = "idle"]

\* ------------------------------------------------------------------------
\* Inputs and their cutting into chunks
\* ------------------------------------------------------------------------

\* The sets of at most k cut places of a text of n code points (a cut at i
\* lies between code points i and i + 1).
RECURSIVE CutSets(_, _)
CutSets(n, k) ==
    IF k = 0 THEN {{}}
    ELSE LET fewer == CutSets(n, k - 1)
         IN  fewer \cup {c \cup {i} : c \in fewer, i \in 1..(n - 1)}

\* The non-empty chunks of text cut at the places of cuts, in order.
RECURSIVE ChunksFrom(_, _, _)
ChunksFrom(text, from, cuts) ==
    IF from > Len(text) THEN <<>>
    ELSE LET later == {c \in cuts : c >= from}
             to == IF later = {} THEN Len(text) ELSE Min(later)
         IN  <<[data |-> SubSeq(text, from, to), status |-> BUFFER_MAY_CONTAIN_NEWLINE]>>
             \o ChunksFrom(text, to + 1, cuts)

Chunks(text, cuts) == ChunksFrom(text, 1, cuts)

\* The sequences over S of length at most n.
SeqsUpTo(S, n) == UNION {[1..k -> S] : k \in 0..n}

\* The input symbols enumerated under each dialect.
Alphabet(config) ==
    CASE config = DefaultConfig -> {"a", ",", "\"", "#", NLn, NLr, NLrn}
      [] config = SpacesConfig -> {"a", " ", ",", "\"", NLn}
      [] config = NoEmbeddedConfig -> {"a", ",", "\"", NLn, NLrn}
      [] config = Comment2Config -> {"a", "#", "!", ",", NLn}

\* The documented lines (tokenize.c, "How parsing quoted fields works") and
\* the blank-line table.
QuotedLine ==
    <<"1", "2", ".", "3", ",", "\"", "N", "e", "w", " ", "Y", "o", "r", "k", ",", " ",
      "N", "Y", "\"", ",", "\"", "3", "'", "2", "\"", "\"", "\"", NLn>>

MixedLine ==
    <<"1", "2", ".", "3", ",", "\"", "A", "B", "C", "\"", "D", "E", "F", ",",
      "X", "Y", "\"", "Z", NLn>>

BlankLineTable ==
    <<"1", ",", "2", ",", "3", NLn, NLn, "4", ",", "5", ",", "6", NLn>>

Examples == {QuotedLine, MixedLine, BlankLineTable}

Inputs(config) ==
    SeqsUpTo(Alphabet(config), MaxLen)
        \cup (IF config = DefaultConfig THEN Examples ELSE {})

\* ------------------------------------------------------------------------
\* The tokenizer run over a chunked stream
\* ------------------------------------------------------------------------

VARIABLES
    symbols,    \* the input, as input symbols
    config,     \* the parser_config of the read
    cuts,       \* the places at which the input was cut into chunks
    ts,         \* tokenizer_state
    loc,        \* locals of the running tokenize() call
    strm,       \* chunks the stream still holds
    pc,         \* place in tokenize()
    rets,       \* what the calls returned so far
    eofcalls,   \* calls that reported end-of-file
    fb,         \* file_buffer of the row reader
    rr,         \* arguments and locals of read_rows
    conv        \* the conversion of a token

vars == <<symbols, config, cuts, ts, loc, strm, pc, rets, eofcalls, fb, rr, conv>>

\* The machine of the current state.
Cur ==
    [ts |-> ts, loc |-> loc, strm |-> strm, pc |-> pc, rets |-> rets,
     eofcalls |-> eofcalls]

Becomes(m) ==
    /\ ts' = m.ts
    /\ loc' = m.loc
    /\ strm' = m.strm
    /\ pc' = m.pc
    /\ rets' = m.rets
    /\ eofcalls' = m.eofcalls
    /\ UNCHANGED <<symbols, config, cuts, fb, rr, conv>>

\* The tokenizer alone: no file is open and read_rows is not running.
Init ==
    /\ config \in Configs
    /\ symbols \in Inputs(config)
    /\ cuts \in CutSets(Len(Expand(symbols)), MaxCuts)
    /\ strm = Chunks(Expand(symbols), cuts)
    /\ ts = tokenizer_init
    /\ loc = NoLocals
    /\ pc = "call"
    /\ rets = <<>>
    /\ eofcalls = 0
    /\ fb = stream_file(<<>>, MaxBufferSize)
    /\ rr = [read_rows_enter(NULL, 0) EXCEPT !.pc = "idle"]
    /\ conv = NoConversion

Enter == pc = "call" /\ Becomes(tokenize_enter(Cur))

Fetch == NeedsFetch(Cur) /\ Becomes(tokenize_fetch(Cur))

\* A turn of the loop past the fetch, as tokenize_switch makes it.
Switched ==
    \E r \in {switch(ts, loc, config)} :
        \E done \in {finalize_field(copy_chunk(r))} :
            Becomes(tokenize_switched(Cur, r, done))

InState(state) ==
    /\ pc \in {"loop", "switch"}
    /\ ~NeedsFetch(Cur)
    /\ ts.state = state

Unquoted == InState(TOKENIZE_UNQUOTED) /\ Switched

Quoted == InState(TOKENIZE_QUOTED) /\ Switched

InitField == InState(TOKENIZE_INIT) /\ Switched

CheckComment == InState(TOKENIZE_CHECK_COMMENT) /\ Switched

CheckDoubleQuote ==
    InState(TOKENIZE_QUOTED_CHECK_DOUBLE_QUOTE) /\ Switched

FinalizeLine == InState(TOKENIZE_FINALIZE_LINE) /\ Switched

EatCRLF == InState(TOKENIZE_EAT_CRLF) /\ Switched

FinalizeFile == InState(TOKENIZE_FINALIZE_FILE) /\ Switched

Next ==
    \/ Enter
    \/ Fetch
    \/ Unquoted
    \/ Quoted
    \/ InitField
    \/ CheckComment
    \/ CheckDoubleQuote
    \/ FinalizeLine
    \/ EatCRLF
    \/ FinalizeFile

Spec == Init /\ [][Next]_vars

\* ------------------------------------------------------------------------
\* What the claims speak of
\* ------------------------------------------------------------------------

\* The input text of the run.
Text == Expand(symbols)

Done == pc = "done"

\* The rows of a sequence of returns: per row the fields' text and flags.
Rows(rs) == [i \in 1..Len(rs) |-> rs[i].fields]

\* The field contents of a row.
Texts(row) == [j \in 1..Len(row) |-> row[j].text]

RowTexts(rs) == [i \in 1..Len(rs) |-> Texts(rs[i].fields)]

HasFields(row) == row # <<>>

\* The rows that hold at least one field.
NonEmptyRows(rows) == SelectSeq(rows, HasFields)

\* What the calls return when text is delivered as a single chunk.
SingleChunkRun(text, cfg) == Run(Machine(Chunks(text, {})), cfg)

\* The places of the code point c in text.
Places(text, c) == {i \in 1..Len(text) : text[i] = c}

\* C1: cutting the input into non-empty MAY_CONTAIN_NEWLINE chunks, in any
\* way, gives the same sequence of rows (field contents, field count and
\* quoted flags per row) as delivering the whole input as a single chunk.
C1_ChunkSplitInvariance ==
    Done => Rows(rets) = Rows(SingleChunkRun(Text, config))

\* A finished run that returned a row with fields and whose input was cut
\* between '\r' and '\n', between a quote and the quote after it, or between
\* the two characters of a comment marker.
C1_Witness ==
    /\ Done
    /\ \E c \in cuts :
           \/ Text[c] = CR /\ Text[c + 1] = LF
           \/ Text[c] = config.quote /\ Text[c + 1] = config.quote /\ c > 1
           \/ Text[c] = config.comment[1] /\ Text[c + 1] = config.comment[2]
    /\ \E i \in 1..Len(rets) : rets[i].fields # <<>>

Max(S) == CHOOSE x \in S : \A y \in S : x >= y

\* The first call that reported end-of-file.
FirstEOF(rs) == Min({i \in 1..Len(rs) : rs[i].res = 1})

\* The text after the last line terminator.
LastLine(text) ==
    LET nl == {i \in 1..Len(text) : IsNewline(text[i])}
    IN  SubSeq(text, (IF nl = {} THEN 0 ELSE Max(nl)) + 1, Len(text))

\* The text before the first line terminator.
FirstLine(text) ==
    LET nl == {i \in 1..Len(text) : IsNewline(text[i])}
    IN  SubSeq(text, 1, (IF nl = {} THEN Len(text) + 1 ELSE Min(nl)) - 1)

\* A line cut at every delimiter.
RECURSIVE Split(_, _)
Split(line, delimiter) ==
    LET at == Places(line, delimiter)
    IN  IF at = {} THEN <<line>>
        ELSE <<SubSeq(line, 1, Min(at) - 1)>>
                 \o Split(SubSeq(line, Min(at) + 1, Len(line)), delimiter)

Range(f) == {f[i] : i \in DOMAIN f}

\* C2: a call that reports end-of-file while a row is being assembled still
\* delivers that row's fields; every later call reports end-of-file with
\* zero fields; no call reports an error; and no returned row runs two lines
\* together (a line terminator is found only in the text of a quoted field,
\* and in none when embedded newlines are off).
C2_OneRowPerCall ==
    /\ \A i \in 1..Len(rets) : rets[i].res \in {0, 1}
    /\ \A i \in 1..Len(rets) : \A j \in (i + 1)..Len(rets) :
           rets[i].res = 1 => rets[j].res = 1 /\ rets[j].fields = <<>>
    /\ \A i \in 1..Len(rets) : \A j \in 1..Len(rets[i].fields) :
           (~rets[i].fields[j].quoted \/ ~config.allow_embedded_newline)
               => Range(rets[i].fields[j].text) \cap {CR, LF} = {}
    /\ (/\ Done
        /\ config.quote \notin Range(Text)
        /\ LastLine(Text) # <<>>
        /\ Range(LastLine(Text)) \subseteq {"a", config.delimiter}
        /\ Text[Len(Text)] # config.delimiter)
           => Texts(rets[FirstEOF(rets)].fields) = Split(LastLine(Text), config.delimiter)

\* End-of-file arrived inside the second field of the last row, the row was
\* delivered, and the calls made after it were answered.
C2_Witness ==
    /\ Done
    /\ Text = <<"a", ",", "a">>
    /\ Len(rets) = 1 + MaxExtraCalls
    /\ Texts(rets[1].fields) = <<<<"a">>, <<"a">>>>

\* The text of a field with a quote character in front and behind.
InQuotes(field, quote) == <<quote>> \o field \o <<quote>>

\* C3: inside a quoted field two consecutive quote characters give one
\* literal quote character in the field, which stays quoted; the documented
\* line 12.3,"New York, NY","3'2""" gives 12.3 / New York, NY / 3'2".
C3_DoubledQuoteIsLiteral ==
    /\ (Done /\ symbols = QuotedLine) =>
           Rows(rets)[1] =
               <<[text |-> <<"1", "2", ".", "3">>, quoted |-> FALSE],
                 [text |-> <<"N", "e", "w", " ", "Y", "o", "r", "k", ",", " ", "N", "Y">>,
                  quoted |-> TRUE],
                 [text |-> <<"3", "'", "2", "\"">>, quoted |-> TRUE]>>
    /\ (Done /\ Text = <<config.quote, config.quote, config.quote>>) =>
           Rows(rets)[1] = <<[text |-> <<config.quote>>, quoted |-> TRUE]>>

\* The closing quote of a quoted section and what follows it: the place j of
\* the first quote after the opening one, when the code point after it is
\* none of quote, delimiter, line terminator, comment and nothing after it
\* ends the field.
ClosedThenData(text, cfg) ==
    {j \in 2..(Len(text) - 1) :
        /\ text[1] = cfg.quote
        /\ text[j] = cfg.quote
        /\ cfg.quote \notin Range(SubSeq(text, 2, j - 1))
        /\ (~cfg.allow_embedded_newline =>
               Range(SubSeq(text, 2, j - 1)) \cap {CR, LF} = {})
        /\ text[j + 1] # cfg.quote
        /\ Range(SubSeq(text, j + 1, Len(text)))
               \cap {CR, LF, cfg.delimiter, cfg.comment[1]} = {}}

\* C4: text after a closing quote is appended to the text captured inside
\* the quotes ("ABC"DEF is the one field ABCDEF); a quote that is not the
\* first character of a field is data (XY"Z is XY"Z); delimiters inside an
\* open quoted section do not split the field.
C4_QuoteThenData ==
    /\ (Done /\ symbols = MixedLine) =>
           Texts(rets[1].fields) =
               <<<<"1", "2", ".", "3">>, <<"A", "B", "C", "D", "E", "F">>,
                 <<"X", "Y", "\"", "Z">>>>
    /\ Done => \A j \in ClosedThenData(Text, config) :
           Texts(rets[1].fields) =
               <<SubSeq(Text, 2, j - 1) \o SubSeq(Text, j + 1, Len(Text))>>
    /\ (/\ Done
        /\ Text # <<>>
        /\ Text[1] = "a"
        /\ Range(Text) \cap {CR, LF, config.delimiter, config.comment[1]} = {})
           => Rows(rets)[1] = <<[text |-> Text, quoted |-> FALSE]>>
    /\ (/\ Done
        /\ Len(Text) > 1
        /\ Text[1] = config.quote
        /\ config.quote \notin Range(Tail(Text))
        /\ (~config.allow_embedded_newline => Range(Text) \cap {CR, LF} = {}))
           => Rows(rets)[1] = <<[text |-> Tail(Text), quoted |-> TRUE]>>

\* The documented line was tokenized, and so was a quoted section holding a
\* delimiter.
C4_Witness ==
    /\ Done
    /\ symbols = MixedLine
    /\ Len(rets[1].fields) = 3
    /\ rets[1].fields[2].text = <<"A", "B", "C", "D", "E", "F">>

\* The field text F when the input is "F" and F holds no line terminator,
\* no delimiter and no quote (a set of at most one text).
QuotedForm(text, cfg) ==
    {F \in {SubSeq(text, 2, Len(text) - 1)} :
        /\ Len(text) >= 2
        /\ text = InQuotes(F, cfg.quote)
        /\ Range(F) \cap {CR, LF, cfg.delimiter, cfg.quote} = {}}

\* The field contents of the first row when text is tokenized on its own.
BareRow(text, cfg) == Texts(SingleChunkRun(text, cfg)[1].fields)

\* C5 as claimed: for every F without line terminator, delimiter and quote,
\* "F" gives the field contents that the bare F gives, comment characters
\* and leading spaces in F included.
C5_QuoteIdempotence_AnyF ==
    Done => \A F \in QuotedForm(Text, config) :
        Texts(rets[1].fields) = BareRow(F, config)

\* C5 as amended: for every F without line terminator, delimiter, quote and
\* comment character, and not starting with a space when leading spaces are
\* ignored, "F" gives one field with the content the bare F gives (no field
\* when F is empty).
C5_QuoteIdempotence ==
    Done => \A F \in QuotedForm(Text, config) :
        (/\ config.comment[1] \notin Range(F)
         /\ (config.ignore_leading_spaces /\ F # <<>> => F[1] # " "))
            => /\ Texts(rets[1].fields) = BareRow(F, config)
               /\ Texts(rets[1].fields) = IF F = <<>> THEN <<>> ELSE <<F>>

\* A quoted form of a non-empty F without comment character was tokenized
\* to the one quoted field F.
C5_Witness ==
    /\ Done
    /\ config = DefaultConfig
    /\ \E F \in QuotedForm(Text, config) :
           /\ F # <<>>
           /\ config.comment[1] \notin Range(F)
           /\ rets[1].fields = <<[text |-> F, quoted |-> TRUE]>>

\* The run of the same input with every line terminator spelled '\n'.
CanonRun == SingleChunkRun(Canon(symbols), config)

CanonRows == RowTexts(CanonRun)

\* The rows read up to end-of-file, zero-field rows included: what the calls
\* returned up to the first that reported end-of-file, that one too if it
\* delivered fields.
RowsRead(rs) ==
    LET eof == FirstEOF(rs)
    IN  RowTexts(SubSeq(rs, 1, IF rs[eof].fields = <<>> THEN eof - 1 ELSE eof))

\* No line terminator lies inside a quoted section: none was copied into a
\* field.
NoEmbeddedNewline(rows) ==
    \A i \in 1..Len(rows) : \A j \in 1..Len(rows[i]) : LF \notin Range(rows[i][j])

\* Lines of plain fields: the text has no quote and no comment character,
\* and no blank line (no two line terminators in a row, none in front).
PlainLines(text, cfg) ==
    /\ Range(text) \cap {cfg.quote, cfg.comment[1]} = {}
    /\ \A i \in 1..Len(text) : text[i] = LF => i > 1 /\ text[i - 1] # LF

\* C6 as claimed: spelling each '\n' of an input as '\n', '\r' or '\r\n'
\* leaves the sequence of rows (field contents and field counts) unchanged,
\* read here as the rows that hold fields.
C6_UniversalNewlines_AnyInput ==
    Done => NonEmptyRows(RowTexts(rets)) = NonEmptyRows(CanonRows)

\* C6 as amended: when no line terminator lies inside a quoted section, the
\* spelling of the line terminators leaves the rows that hold fields
\* unchanged; for lines of plain fields without blank lines it leaves the
\* whole sequence of rows unchanged, each terminator ending one row.
C6_UniversalNewlines ==
    (Done /\ NoEmbeddedNewline(CanonRows)) =>
        /\ NonEmptyRows(RowTexts(rets)) = NonEmptyRows(CanonRows)
        /\ PlainLines(Canon(symbols), config) => RowsRead(rets) = RowsRead(CanonRun)

\* Two lines, the first ended by '\r\n' or by a lone '\r', gave two rows.
C6_Witness ==
    /\ Done
    /\ NoEmbeddedNewline(CanonRows)
    /\ Range(symbols) \cap {NLr, NLrn} # {}
    /\ Len(NonEmptyRows(RowTexts(rets))) = 2

FileAlphabet == {"a", ",", LF, CR}

Files == SeqsUpTo(FileAlphabet, MaxFileLen)

\* The usecols arrays of the reads; NULL reads every column.
UseCols == {NULL, Ptr(<<0>>), Ptr(<<1>>), Ptr(<<-1>>), Ptr(<<-2>>), Ptr(<<0, -1>>)}

\* The reader of the current state.
CurReader == [fb |-> fb, m |-> Cur, rr |-> rr]

BecomesReader(r) ==
    /\ fb' = r.fb
    /\ rr' = r.rr
    /\ ts' = r.m.ts
    /\ loc' = r.m.loc
    /\ strm' = r.m.strm
    /\ pc' = r.m.pc
    /\ rets' = r.m.rets
    /\ eofcalls' = r.m.eofcalls
    /\ UNCHANGED <<symbols, config, cuts, conv>>

\* read_rows is entered on a file opened at its start, as
\* _readtext_from_stream calls it when a dtype was given.
InitRows ==
    /\ config = DefaultConfig
    /\ symbols \in Files
    /\ cuts = {}
    /\ conv = NoConversion
    /\ \E buffer_size \in 2..MaxBufferSize, usecols \in UseCols, skiplines \in 0..MaxSkip :
           LET r == Reader(symbols, buffer_size, usecols, skiplines)
           IN  /\ fb = r.fb
               /\ rr = r.rr
               /\ ts = r.m.ts
               /\ loc = r.m.loc
               /\ strm = r.m.strm
               /\ pc = r.m.pc
               /\ rets = r.m.rets
               /\ eofcalls = r.m.eofcalls

\* A turn of the loop of stream_skiplines.
SkipLine ==
    /\ rr.pc = "skiplines" /\ rr.num_lines > 0
    /\ BecomesReader(read_rows_skipline(CurReader))

\* The test for the end of the file after the lines were skipped.
Peek ==
    /\ rr.pc = "peek" \/ (rr.pc = "skiplines" /\ rr.num_lines = 0)
    /\ BecomesReader(read_rows_peek(CurReader))

\* The condition of the loop: the tokenizer is called.
Tokenize ==
    /\ rr.pc = "loop" /\ read_rows_more(CurReader)
    /\ BecomesReader(read_rows_tokenize(CurReader, config))

\* The body of the loop, on the row tokenize() returned.
ReadRow ==
    /\ rr.pc = "row" /\ ~rr.result.null
    /\ BecomesReader(read_rows_row(CurReader))

\* tokenize() returned NULL: the loop is left.
EndOfRows ==
    /\ \/ rr.pc = "row" /\ rr.result.null
       \/ rr.pc = "loop" /\ ~read_rows_more(CurReader)
    /\ \E use_blocks \in read_use_blocks(rr.use_blocks) :
           BecomesReader(read_rows_exit(CurReader, use_blocks))

\* read_rows returned to _readtext_from_stream, which returns its array.
Return ==
    /\ rr.pc = "done"
    /\ BecomesReader(_readtext_from_stream(CurReader))

NextRows ==
    \/ SkipLine
    \/ Peek
    \/ Tokenize
    \/ ReadRow
    \/ EndOfRows
    \/ Return

SpecRows == InitRows /\ [][NextRows]_vars

\* read_rows is entered with any limit on the number of rows: without one
\* and without memory, as when a dtype was given, or with a limit and
\* either the memory of the caller's array or none.
InitLimit ==
    /\ config = DefaultConfig
    /\ symbols \in Files
    /\ cuts = {}
    /\ conv = NoConversion
    /\ \E nrows \in -1..MaxRows, usecols \in UseCols, skiplines \in 0..MaxSkip :
       \E data_array \in IF nrows < 0 THEN {NULL} ELSE {NULL, malloc(nrows)} :
           LET r == ReaderOf(symbols, MaxBufferSize, nrows, usecols, skiplines, data_array)
           IN  /\ fb = r.fb
               /\ rr = r.rr
               /\ ts = r.m.ts
               /\ loc = r.m.loc
               /\ strm = r.m.strm
               /\ pc = r.m.pc
               /\ rets = r.m.rets
               /\ eofcalls = r.m.eofcalls

SpecLimit == InitLimit /\ [][NextRows]_vars

\* ------------------------------------------------------------------------
\* What the claims on the row reader speak of
\* ------------------------------------------------------------------------

\* The bytes of the file of the run.
File == symbols

RowsDone == rr.pc = "done"

\* _readtext_from_stream returned.
Returned == rr.pc = "returned"

\* What a read hands back: the row count, the error and the table.
Outcome(r) ==
    [nrows |-> r.rr.nrows, error_type |-> r.rr.error_type, table |-> r.rr.data_array.at]

\* text without its first line, a line ending at '\n', at a lone '\r' or at
\* "\r\n"; nothing is left of a text without a line terminator.
DropLine(text) ==
    LET ends == {i \in 1..Len(text) : IsNewline(text[i])}
        i == Min(ends)
        j == IF text[i] = CR /\ i < Len(text) /\ text[i + 1] = LF THEN i + 1 ELSE i
    IN  IF ends = {} THEN <<>> ELSE SubSeq(text, j + 1, Len(text))

RECURSIVE DropLines(_, _)
DropLines(text, k) == IF k = 0 THEN text ELSE DropLines(DropLine(text), k - 1)

\* The number of lines of text, the last one with or without a terminator.
RECURSIVE LineCount(_)
LineCount(text) == IF text = <<>> THEN 0 ELSE 1 + LineCount(DropLine(text))

\* The outcomes that reading a file from its start can have.
ReadOutcome(file, buffer_size, usecols, skiplines) ==
    {Outcome(r) : r \in read_rows(Reader(file, buffer_size, usecols, skiplines),
                                  DefaultConfig)}

\* C8: reading with skiprows = k yields the same table as reading the input
\* from which the first k lines were removed, a line ending at '\n', at a
\* lone '\r' or at "\r\n".
C8_SkiprowsEquivalence ==
    RowsDone =>
        Outcome(CurReader) \in
            ReadOutcome(DropLines(File, rr.skiplines), fb.buffer_size, rr.usecols_arg, 0)

\* C9: when the input has fewer lines than skiprows, read_rows sets *nrows
\* to 0, leaves error_type at 0 and never calls the tokenizer.
C9_FewerLinesThanSkiprows ==
    (RowsDone /\ LineCount(File) < rr.skiplines) =>
        /\ rr.nrows = 0
        /\ rr.error_type = ERROR_OK
        /\ rr.data_array.at = <<>>
        /\ rets = <<>>

\* A finished read of a file that has a line, with more lines to skip than
\* the file has.
C9_Witness ==
    /\ RowsDone
    /\ File # <<>>
    /\ LineCount(File) < rr.skiplines
    /\ rr.nrows = 0
    /\ rets = <<>>

\* The rows of text with all their columns.
AllRows(text) == NonEmptyRows(RowTexts(SingleChunkRun(text, DefaultConfig)))

\* The column an index of usecols names in a row of n fields.
Resolve(c, n) == IF c < 0 THEN c + n ELSE c

\* Whether row holds every column cols refers to.
HoldsColumns(row, cols) ==
    \A j \in 1..Len(cols) : Resolve(cols[j], Len(row)) \in 0..(Len(row) - 1)

\* The cells of row at the columns cols.
Project(row, cols) ==
    [j \in 1..Len(cols) |->
        set_U(row[Resolve(cols[j], Len(row)) + 1], field_types[1].itemsize)]

\* C10: for an input whose rows all hold the referenced columns, reading
\* with usecols yields the table of all rows projected onto those indices,
\* a negative index being resolved against the field count of its row.
C10_UsecolsEquivalence ==
    LET rows == AllRows(File)
        cols == rr.usecols_arg.at
    IN  (/\ RowsDone
         /\ rr.skiplines = 0
         /\ ~rr.usecols_arg.null
         /\ \A i \in 1..Len(rows) : HoldsColumns(rows[i], cols))
        => /\ rr.error_type = ERROR_OK
           /\ rr.data_array.at = [i \in 1..Len(rows) |-> Project(rows[i], cols)]

\* The rows of rows, by their place from 1, whose field count is not that
\* of the first row.
Offending(rows) == {i \in 1..Len(rows) : Len(rows[i]) # Len(rows[1])}

\* C11: without usecols a data row whose field count differs from that of
\* the first row fails the read with ChangedNumberOfFields, the error
\* carrying the 0-based index of that row, the count the first row fixed and
\* the count found; with usecols the read does not fail in this way.
C11_ChangedNumberOfFields ==
    LET rows == AllRows(File)
        bad == Offending(rows)
    IN  (RowsDone /\ rr.skiplines = 0 /\ bad # {}) =>
            IF rr.usecols_arg.null
            THEN /\ rr.error_type = ERROR_CHANGED_NUMBER_OF_FIELDS
                 /\ rr.line_number = Min(bad) - 1
                 /\ rr.actual_num_fields = Len(rows[1])
                 /\ rr.column_index = Len(rows[Min(bad)])
            ELSE rr.error_type # ERROR_CHANGED_NUMBER_OF_FIELDS

\* The entries of cols, by their place from 1, that refer to no column of
\* row.
Outside(row, cols) ==
    {j \in 1..Len(cols) : Resolve(cols[j], Len(row)) \notin 0..(Len(row) - 1)}

\* C12: when an entry of usecols, a negative one having the row's field
\* count added, refers to no column of a row, the read fails with
\* InvalidColumnIndex, the error carries the entry as it was requested, and
\* neither that row nor a table is handed back.
C12_InvalidColumnIndex ==
    LET rows == AllRows(File)
        cols == rr.usecols_arg.at
        bad == {i \in 1..Len(rows) : Outside(rows[i], cols) # {}}
    IN  (RowsDone /\ rr.skiplines = 0 /\ ~rr.usecols_arg.null /\ bad # {}) =>
            /\ rr.error_type = ERROR_INVALID_COLUMN_INDEX
            /\ rr.row_count < Min(bad)
            /\ rr.data_array.null
            /\ rr.row_count = Min(bad) - 1 =>
                   rr.column_index = cols[Min(Outside(rows[Min(bad)], cols))]

\* The readers that the read of the run can return with when it is not
\* limited and the rows grow in blocks.
ReadAll ==
    read_rows(ReaderOf(File, fb.buffer_size, -1, rr.usecols_arg, rr.skiplines, NULL),
              DefaultConfig)

C17_ErrorsAreFatal ==
    (Returned /\ rr.error_type # ERROR_OK) => rr.data_array.null /\ rr.arr.null

\* The text the tokenizer is handed: the file after the skipped lines.
RestOfFile ==
    LET rest == fb_nextbuf(fb)
    IN  Flatten([i \in 1..Len(rest) |-> rest[i].data])

\* The cells of a row that takes every column, as they are stored.
StoredRow(row) == [j \in 1..Len(row) |-> set_U(row[j], field_types[1].itemsize)]

RECURSIVE Decimal(_)
Decimal(n) ==
    IF n < 0 THEN <<"-">> \o Decimal(-n)
    ELSE IF n < 10 THEN <<Digits[n + 1]>>
    ELSE Decimal(n \div 10) \o <<Digits[(n % 10) + 1]>>

\* The code points of the enumerated tokens.
TokAlphabet == {"1", "9", "-", "+", ".", "e", " ", "j", "(", ")", "é", "€"}

\* The ends of the integer types and their neighbours.
Ends == {INT8_MIN - 1, INT8_MIN, INT8_MAX, INT8_MAX + 1,
         INT16_MIN - 1, INT16_MIN, INT16_MAX, INT16_MAX + 1,
         -1, 0, UINT8_MAX, UINT8_MAX + 1, UINT16_MAX, UINT16_MAX + 1}

\* Tokens of the specification's examples and of the ends of the types.
TokExamples ==
    {Decimal(n) : n \in Ends}
    \cup {<<"1", "e", "1">>, <<"1", "e", "3">>, <<"-", "0">>, <<"2", ".", "7", "5">>,
          <<"-", "2", ".", "7", "5">>, <<"1", ".", "5", "é">>, <<"1", "é", "x">>,
          <<"1", "x", "é">>, <<"1", "+", "2", "j">>, <<"(", "1", "+", "2", "j", ")">>,
          <<"(", "1", "+", "2", "j">>, <<"1", "+", "2", "j", ")">>,
          <<"(", "1", "-", "2", "j", ")">>, <<" ", "(", "2", "j", ")", " ">>,
          <<"1", " ", "2", "j">>, <<"1", "+", "+", "2", "j">>, <<"1", "+", "-", "2", "j">>,
          <<"1", "-", "2", "j">>, <<"1", "+", " ", "2", "j">>}

Tokens == SeqsUpTo(TokAlphabet, MaxTokLen) \cup TokExamples

\* A parser of a field is called on a token, with nothing else running.
InitConv ==
    /\ config = DefaultConfig
    /\ symbols = <<>>
    /\ cuts = {}
    /\ strm = <<>>
    /\ ts = tokenizer_init
    /\ loc = NoLocals
    /\ pc = "idle"
    /\ rets = <<>>
    /\ eofcalls = 0
    /\ fb = stream_file(<<>>, MaxBufferSize)
    /\ rr = [read_rows_enter(NULL, 0) EXCEPT !.pc = "idle"]
    /\ \E str \in Tokens, allow_float_for_int \in BOOLEAN :
           conv = Conversion(str, NumberConfig(allow_float_for_int))

\* The end pointer of the token.
End == Len(conv.str) + 1

ConvertedInt(parser, out) ==
    /\ conv' = [conv EXCEPT !.pc = "done", !.parser = parser, !.ret = out.ret,
                            !.stored = out.stored, !.x = out.x,
                            !.undefined = out.undefined]
    /\ UNCHANGED <<symbols, config, cuts, ts, loc, strm, pc, rets, eofcalls, fb, rr>>

ConvertedDouble(parser, out) ==
    /\ conv' = [conv EXCEPT !.pc = "done", !.parser = parser, !.ret = out.ret,
                            !.stored = out.stored, !.val = out.val]
    /\ UNCHANGED <<symbols, config, cuts, ts, loc, strm, pc, rets, eofcalls, fb, rr>>

ConvertedComplex(parser, out) ==
    /\ conv' = [conv EXCEPT !.pc = "done", !.parser = parser, !.ret = out.ret,
                            !.stored = out.stored, !.val = out.real, !.imag = out.imag]
    /\ UNCHANGED <<symbols, config, cuts, ts, loc, strm, pc, rets, eofcalls, fb, rr>>

ToInt8 ==
    /\ conv.pc = "call"
    /\ \E out \in to_int8(conv.str, End, conv.pconfig) : ConvertedInt("to_int8", out)

ToInt16 ==
    /\ conv.pc = "call"
    /\ \E out \in to_int16(conv.str, End, conv.pconfig) : ConvertedInt("to_int16", out)

ToUint8 ==
    /\ conv.pc = "call"
    /\ \E out \in to_uint8(conv.str, End, conv.pconfig) : ConvertedInt("to_uint8", out)

ToUint16 ==
    /\ conv.pc = "call"
    /\ \E out \in to_uint16(conv.str, End, conv.pconfig) : ConvertedInt("to_uint16", out)

ToBool ==
    /\ conv.pc = "call"
    /\ \E out \in to_bool(conv.str, End) : ConvertedInt("to_bool", out)

ToFloat == conv.pc = "call" /\ ConvertedDouble("to_float", to_float(conv.str, End))

ToDouble == conv.pc = "call" /\ ConvertedDouble("to_double", to_double(conv.str, End))

ToCfloat ==
    conv.pc = "call" /\ ConvertedComplex("to_cfloat", to_cfloat(conv.str, End, conv.pconfig))

ToCdouble ==
    conv.pc = "call" /\ ConvertedComplex("to_cdouble", to_cdouble(conv.str, End, conv.pconfig))

To_string ==
    /\ conv.pc = "call"
    /\ \E elsize \in 1..MaxElsize :
           LET out == to_string(elsize, conv.str, End)
           IN  conv' = [conv EXCEPT !.pc = "done", !.parser = "to_string",
                                    !.ret = out.ret, !.stored = out.ret = 0,
                                    !.elsize = elsize, !.dataptr = out.dataptr]
    /\ UNCHANGED <<symbols, config, cuts, ts, loc, strm, pc, rets, eofcalls, fb, rr>>

NextConv ==
    \/ ToInt8
    \/ ToInt16
    \/ ToUint8
    \/ ToUint16
    \/ ToBool
    \/ ToFloat
    \/ ToDouble
    \/ ToCfloat
    \/ ToCdouble
    \/ To_string

SpecConv == InitConv /\ [][NextConv]_vars

\* ------------------------------------------------------------------------
\* What the claims on the conversions speak of
\* ------------------------------------------------------------------------

\* The parser returned.
Converted == conv.pc = "done"

\* The smallest and the largest value of the type of an integer parser.
Lo(parser) ==
    CASE parser = "to_int8" -> INT8_MIN
      [] parser = "to_int16" -> INT16_MIN
      [] OTHER -> 0

Hi(parser) ==
    CASE parser = "to_int8" -> INT8_MAX
      [] parser = "to_int16" -> INT16_MAX
      [] parser = "to_uint8" -> UINT8_MAX
      [] OTHER -> UINT16_MAX

IntParsers == {"to_int8", "to_int16", "to_uint8", "to_uint16"}

UintParsers == {"to_uint8", "to_uint16"}

\* Whether str is an optional sign and digits, and the integer it denotes.
IntegerText(str) ==
    LET p == IF At(str, 1) \in {"+", "-"} THEN 2 ELSE 1
    IN  Len(str) >= p /\ \A q \in p..Len(str) : isdigit(str[q])

IntegerOf(str) ==
    LET p == IF At(str, 1) \in {"+", "-"} THEN 2 ELSE 1
        n == decimal(str, p, Len(str) + 1, 0)
    IN  IF At(str, 1) = "-" THEN -n ELSE n

\* C13: under the default dialect an integer parser accepts the decimal
\* text of the largest and of the smallest value of its type and stores
\* that value, rejects the text of the value above and of the value below,
\* and stores for no accepted decimal text another value than the one the
\* text denotes.
C13_IntegerRange ==
    (/\ Converted
     /\ conv.parser \in IntParsers
     /\ conv.pconfig.allow_float_for_int = DefaultAllowFloatForInt) =>
        /\ conv.str \in {Decimal(Lo(conv.parser)), Decimal(Hi(conv.parser))}
               => conv.ret = 0 /\ conv.stored /\ conv.x = IntegerOf(conv.str)
        /\ conv.str \in {Decimal(Lo(conv.parser) - 1), Decimal(Hi(conv.parser) + 1)}
               => conv.ret = -1 /\ ~conv.stored
        /\ IntegerText(conv.str) /\ conv.ret = 0 => conv.x = IntegerOf(conv.str)

\* C14: an unsigned integer parser returns an error, and stores nothing,
\* for every token whose first character that is not whitespace is '-'.
C14_UnsignedRejectsMinus ==
    (/\ Converted
     /\ conv.parser \in UintParsers
     /\ At(conv.str, skip_spaces(conv.str, 1)) = "-") =>
        conv.ret = -1 /\ ~conv.stored

\* The token without the whitespace at its start and at its end.
RECURSIVE Strip(_)
Strip(str) ==
    IF str = <<>> THEN str
    ELSE IF Py_UNICODE_ISSPACE(Head(str)) THEN Strip(Tail(str))
    ELSE IF Py_UNICODE_ISSPACE(str[Len(str)]) THEN Strip(SubSeq(str, 1, Len(str) - 1))
    ELSE str

\* Whether the float grammar takes the whole token, whitespace around it
\* set aside.
FloatText(str) ==
    LET d == PyOS_string_to_double(Strip(str))
    IN  Strip(str) # <<>> /\ d.ok /\ d.parsed = Len(Strip(str))

\* Whether the integer grammar of the parser rejects the token.
IntegerRejects(parser, str) ==
    IF parser \in UintParsers THEN str_to_uint64(str, Len(str) + 1, Hi(parser)).ret < 0
    ELSE str_to_int64(str, Len(str) + 1, Lo(parser), Hi(parser)).ret < 0

\* C15: a token that the integer grammar rejects fails the integer parser
\* when allow_float_for_int is false; when it is true the token is accepted
\* only if the float grammar takes the whole token, the value stored is then
\* the float with its fraction cut off, and the parser fails if the float
\* parser does.
C15_FloatFallback ==
    (/\ Converted
     /\ conv.parser \in IntParsers
     /\ IntegerRejects(conv.parser, conv.str)) =>
        IF ~conv.pconfig.allow_float_for_int THEN conv.ret = -1 /\ ~conv.stored
        ELSE /\ to_double(conv.str, End).ret < 0 => conv.ret = -1 /\ ~conv.stored
             /\ conv.ret = 0 =>
                    /\ FloatText(conv.str)
                    /\ conv.x = Trunc(PyOS_string_to_double(Strip(conv.str)).result)

\* C19: to_float and to_double fail for every token that holds a code
\* point >= 128, wherever it is.
C19_FloatStrictASCII ==
    (/\ Converted
     /\ conv.parser \in {"to_float", "to_double"}
     /\ \E q \in 1..Len(conv.str) : conv.str[q] \in NonASCII) =>
        conv.ret = -1 /\ ~conv.stored

\* The number of places of str that hold c.
Count(str, c) == Cardinality({q \in 1..Len(str) : str[q] = c})

\* C20: the complex parsers accept a token only if its parentheses are
\* balanced, an opening one with its closing one after the value and no
\* closing one without an opening one; "(1+2j)" and "1+2j" both give 1+2j.
C20_ComplexParentheses ==
    (Converted /\ conv.parser \in {"to_cfloat", "to_cdouble"}) =>
        /\ conv.ret = 0 => Count(conv.str, "(") = Count(conv.str, ")")
        /\ conv.str \in {<<"1", "+", "2", "j">>, <<"(", "1", "+", "2", "j", ")">>} =>
               /\ conv.ret = 0
               /\ conv.val = Double(FALSE, 1, FALSE)
               /\ conv.imag = Double(FALSE, 2, FALSE)

ComplexParsers == {"to_cfloat", "to_cdouble"}

\* Whether the float grammar takes all of s, which holds no whitespace
\* around the number, and the number it spells.
PlainFloat(s) ==
    LET d == PyOS_string_to_double(s)
    IN  s # <<>> /\ d.ok /\ d.parsed = Len(s)

FloatOf(s) == PyOS_string_to_double(s).result

\* The token from its real part on: without the whitespace around it, the
\* parenthesis that opens it with the whitespace after it, and the
\* parenthesis that closes it.
Core(str) ==
    LET a == Strip(str)
        b == IF At(a, 1) = "(" THEN Strip(Tail(a)) ELSE a
    IN  IF At(b, Len(b)) = ")" THEN SubSeq(b, 1, Len(b) - 1) ELSE b

\* The three shapes of a complex token c with the imaginary unit u, and the
\* value each of them spells: a float alone; a float and the unit; a float,
\* and a float that starts with a sign, and the unit.
RealShape(c, real, imag) ==
    PlainFloat(c) /\ real = FloatOf(c) /\ imag = Double(FALSE, 0, FALSE)

ImaginaryShape(c, u, real, imag) ==
    /\ At(c, Len(c)) = u
    /\ PlainFloat(SubSeq(c, 1, Len(c) - 1))
    /\ real = Double(FALSE, 0, FALSE)
    /\ imag = FloatOf(SubSeq(c, 1, Len(c) - 1))

SumShape(c, u, real, imag) ==
    /\ At(c, Len(c)) = u
    /\ \E k \in 2..(Len(c) - 2) :
           /\ c[k] \in {"+", "-"}
           /\ PlainFloat(SubSeq(c, 1, k - 1))
           /\ PlainFloat(SubSeq(c, k, Len(c) - 1))
           /\ real = FloatOf(SubSeq(c, 1, k - 1))
           /\ imag = FloatOf(SubSeq(c, k, Len(c) - 1))

\* C21: a complex parser accepts a token only when, from its real part on,
\* it is a float alone (imag = 0), a float and the imaginary unit (real = 0,
\* imag the float), or a float, a float that starts with '+' or '-', and the
\* imaginary unit; "1 2j" and "1++2j" are rejected.
C21_ComplexGrammar ==
    (Converted /\ conv.parser \in ComplexParsers /\ conv.ret = 0) =>
        \/ RealShape(Core(conv.str), conv.val, conv.imag)
        \/ ImaginaryShape(Core(conv.str), conv.pconfig.imaginary_unit, conv.val, conv.imag)
        \/ SumShape(Core(conv.str), conv.pconfig.imaginary_unit, conv.val, conv.imag)

\* C22: to_string writes exactly elsize bytes, the first min(len, elsize)
\* of them the code points of the field and the others NUL, and it returns
\* an error whenever the field holds a code point > 255, wherever it is.
C22_NarrowString ==
    (Converted /\ conv.parser = "to_string") =>
        /\ conv.ret = 0 =>
               /\ Len(conv.dataptr) = conv.elsize
               /\ \A i \in 1..conv.elsize :
                      conv.dataptr[i] = IF i <= Len(conv.str) THEN conv.str[i] ELSE NUL
        /\ (\E q \in 1..Len(conv.str) : conv.str[q] \in Above255) => conv.ret = -1

\* ------------------------------------------------------------------------
\* The tokenizer run over chunks of every status
\* ------------------------------------------------------------------------

\* The statuses the stream may give a chunk: MAY_CONTAIN_NEWLINE always,
\* NO_NEWLINE when it holds no line terminator, FILE_END when it is the
\* last one.
StatusesOf(data, last) ==
    {BUFFER_MAY_CONTAIN_NEWLINE}
        \cup (IF \A i \in 1..Len(data) : ~IsNewline(data[i]) THEN {BUFFER_NO_NEWLINE} ELSE {})
        \cup (IF last THEN {BUFFER_IS_FILEEND} ELSE {})

\* The chunks with every status the stream may give them.
WithStatus(chunks) ==
    {[i \in 1..Len(chunks) |-> [data |-> chunks[i].data, status |-> f[i]]] :
        f \in {g \in [1..Len(chunks) -> {BUFFER_MAY_CONTAIN_NEWLINE, BUFFER_NO_NEWLINE,
                                         BUFFER_IS_FILEEND}] :
                  \A i \in 1..Len(chunks) :
                      g[i] \in StatusesOf(chunks[i].data, i = Len(chunks))}}

\* A header line that is a comment, and two lines of three values.
CommentedTable ==
    <<"#", "h", NLn, "1", " ", "2", " ", "3", NLn, "4", " ", "5", " ", "6", NLn>>

\* A comment character inside a quoted field, and after it.
QuotedComment == <<"\"", "a", "#", "\"", "#", "a", NLn, "a", NLn>>

\* The line 1 2 3 with more spaces between, before and after its values.
SpacedLines ==
    {<<"1", " ", "2", " ", "3">>, <<"1", " ", " ", " ", "2", " ", "3">>,
     <<" ", "1", " ", "2", " ", "3">>, <<"1", " ", "2", " ", "3", " ">>}

StatusInputs(cfg) ==
    SeqsUpTo({"a", cfg.delimiter, "#", NLn}, MaxStatusLen)
        \cup (IF cfg = WhitespaceConfig
              THEN {CommentedTable} \cup SpacedLines \cup {l \o <<NLn>> : l \in SpacedLines}
              ELSE {QuotedComment})

InitStatus ==
    /\ config \in {DefaultConfig, WhitespaceConfig}
    /\ symbols \in StatusInputs(config)
    /\ cuts \in CutSets(Len(Expand(symbols)), MaxStatusCuts)
    /\ strm \in WithStatus(Chunks(Expand(symbols), cuts))
    /\ ts = tokenizer_init
    /\ loc = NoLocals
    /\ pc = "call"
    /\ rets = <<>>
    /\ eofcalls = 0
    /\ fb = stream_file(<<>>, MaxBufferSize)
    /\ rr = [read_rows_enter(NULL, 0) EXCEPT !.pc = "idle"]
    /\ conv = NoConversion

\* The steps of tokenize() under a one-character comment marker.
NextStatus ==
    \/ Enter
    \/ Fetch
    \/ Unquoted
    \/ Quoted
    \/ InitField
    \/ CheckDoubleQuote
    \/ FinalizeLine
    \/ EatCRLF
    \/ FinalizeFile

SpecStatus == InitStatus /\ [][NextStatus]_vars

\* ------------------------------------------------------------------------
\* What the claims on comments and on spaces speak of
\* ------------------------------------------------------------------------

\* The lines of a text whose lines all end with '\n'.
RECURSIVE Lines(_)
Lines(text) ==
    IF text = <<>> THEN <<>>
    ELSE <<FirstLine(text)>> \o Lines(SubSeq(text, Len(FirstLine(text)) + 2, Len(text)))

\* The line up to its first comment character.
BeforeComment(line, cfg) ==
    SubSeq(line, 1, Min(Places(line, cfg.comment[1]) \cup {Len(line) + 1}) - 1)

\* The fields of every line, where a line without quotes is cut at its
\* comment character and then at every delimiter.
FieldsOfLines(text, cfg) ==
    [i \in 1..Len(Lines(text)) |-> Split(BeforeComment(Lines(text)[i], cfg), cfg.delimiter)]

IsBlank(fields) == fields = <<<<>>>>

NotBlank(fields) == ~IsBlank(fields)

Returned1(ret) == ret.fields # <<>>

\* The field contents of the rows returned with fields.
ReturnedTexts == RowTexts(SelectSeq(rets, Returned1))

\* C23: in an unquoted field the comment character closes the field and
\* the rest of the line appears in no field, a comment character inside a
\* quoted section is data, and every line after a commented line is
\* tokenized as a row of its own, whatever the status of the chunks: a
\* comment-only line followed by 1 2 3 and 4 5 6 gives those two rows.
C23_CommentHandling ==
    Done =>
        /\ (/\ config = DefaultConfig
            /\ config.quote \notin Range(Text)
            /\ Text # <<>>
            /\ Text[Len(Text)] = LF)
               => ReturnedTexts = SelectSeq(FieldsOfLines(Text, config), NotBlank)
        /\ symbols = QuotedComment
               => ReturnedTexts = << <<<<"a", "#">>>>, <<<<"a">>>> >>
        /\ symbols = CommentedTable
               => ReturnedTexts = << <<<<"1">>, <<"2">>, <<"3">>>>,
                                     <<<<"4">>, <<"5">>, <<"6">>>> >>

\* The values of a line: its longest runs of code points other than spaces.
RECURSIVE Words(_)
Words(line) ==
    IF line = <<>> THEN <<>>
    ELSE IF Head(line) = " " THEN Words(Tail(line))
    ELSE LET stop == Min(Places(line, " ") \cup {Len(line) + 1})
         IN  <<SubSeq(line, 1, stop - 1)>> \o Words(SubSeq(line, stop + 1, Len(line)))

\* The text with its last line ended.
Ended(text) == IF text = <<>> \/ text[Len(text)] = LF THEN text ELSE text \o <<LF>>

WordsOfLines(text) == [i \in 1..Len(Lines(Ended(text))) |-> Words(Lines(Ended(text))[i])]

HasWords(words) == words # <<>>

\* C24: with the delimiter ' ' and the leading spaces ignored, the fields
\* of a line are its values: one or more spaces between two values separate
\* two fields, and spaces before the first or after the last value add no
\* field, so "1 2 3", "1   2 3", " 1 2 3" and "1 2 3 " give the same three
\* fields.
C24_WhitespaceSplitting ==
    (/\ Done
     /\ config = WhitespaceConfig
     /\ Range(Text) \cap {config.comment[1], config.quote} = {}) =>
        ReturnedTexts = SelectSeq(WordsOfLines(Text), HasWords)

\* ------------------------------------------------------------------------
\* Reads of a file whose reads fail
\* ------------------------------------------------------------------------

\* The file_buffer of a file that can be read up to fail_at.
stream_file_failing(file, buffer_size, fail_at) ==
    [stream_file(file, buffer_size) EXCEPT !.fail_at = fail_at]

\* read_rows is entered on a file whose reads fail from some position on.
InitFail ==
    /\ config = DefaultConfig
    /\ symbols \in Files
    /\ cuts = {}
    /\ conv = NoConversion
    /\ \E buffer_size \in 2..MaxBufferSize, skiplines \in 0..MaxSkip,
          fail_at \in 0..Len(symbols) :
           LET r == [Reader(symbols, buffer_size, NULL, skiplines)
                        EXCEPT !.fb = stream_file_failing(symbols, buffer_size, fail_at)]
           IN  /\ fb = r.fb
               /\ rr = r.rr
               /\ ts = r.m.ts
               /\ loc = r.m.loc
               /\ strm = r.m.strm
               /\ pc = r.m.pc
               /\ rets = r.m.rets
               /\ eofcalls = r.m.eofcalls

SpecFail == InitFail /\ [][NextRows]_vars

\* The file_buffer after stream_skiplines(s, num_lines), or the one its
\* loop hangs on.
RECURSIVE Skipped(_, _)
Skipped(b, num_lines) ==
    LET s == fb_skiplines(b, num_lines)
    IN  IF num_lines <= 0 \/ s.hangs THEN b
        ELSE IF s.break THEN s.fb
        ELSE Skipped(s.fb, s.num_lines)

\* A read of the file failed while the lines were skipped.
SkipFailed ==
    Skipped(stream_file_failing(File, fb.buffer_size, fb.fail_at), rr.skiplines).ferror

\* C28: when a read of the file fails while the skiprows lines are skipped,
\* read_rows returns an error and has converted no row.
C28_SkipFailureIsFatal ==
    RowsDone /\ SkipFailed => rr.error_type # ERROR_OK /\ rr.row_count = 0

\* ------------------------------------------------------------------------
\* Reads with converters and structured schemas
\* ------------------------------------------------------------------------

\* The converters dicts of the reads.
ConverterDicts ==
    {<<>>, 0 :> "f", 1 :> "g", -1 :> "f", 0 :> NotCallable, (1 :> "f") @@ (-1 :> "g")}

Converters == {Py_None} \cup {PyDict(d) : d \in ConverterDicts}

\* The usecols arrays of the reads with converters.
TableUseCols == {NULL, Ptr(<<1>>), Ptr(<<-1>>), Ptr(<<1, 0>>)}

\* The reader of a file with num_field_types field types and converters.
ReaderWith(file, nrows, usecols, skiplines, num_field_types, converters) ==
    [ReaderOf(file, MaxBufferSize, nrows, usecols, skiplines, NULL)
        EXCEPT !.rr.num_field_types = num_field_types,
               !.rr.converters = converters]

\* read_rows is entered with one field type or a structured schema of
\* MaxFieldTypes fields, with or without converters and usecols, to read the
\* whole file or at most MaxRows rows into memory of its own.
InitTable ==
    /\ config = DefaultConfig
    /\ symbols \in Files
    /\ cuts = {}
    /\ conv = NoConversion
    /\ \E nrows \in {-1, MaxRows}, usecols \in TableUseCols, skiplines \in 0..MaxTableSkip,
          num_field_types \in {1, MaxFieldTypes}, converters \in Converters :
           LET r == ReaderWith(symbols, nrows, usecols, skiplines, num_field_types,
                               converters)
           IN  /\ fb = r.fb
               /\ rr = r.rr
               /\ ts = r.m.ts
               /\ loc = r.m.loc
               /\ strm = r.m.strm
               /\ pc = r.m.pc
               /\ rets = r.m.rets
               /\ eofcalls = r.m.eofcalls

SpecTable == InitTable /\ [][NextRows]_vars

\* The tokenizer holds no field buffer and no fields index.
TokenizerCleared == ts.field_buffer_length = 0 /\ ts.fields_size = 0

\* C25: when read_rows has returned, on success, on an error or at an early
\* end, the tokenizer's field buffer and fields index are released, no
\* reference to a converter and no converter table is held, and the token
\* array of the row is released; after an error the memory the reader
\* allocated for the output is released too and nothing that was acquired
\* during the read is held.
C25_ResourceDiscipline ==
    RowsDone =>
        /\ TokenizerCleared
        /\ rr.held.references = <<>>
        /\ ~rr.held.conv_funcs
        /\ ~rr.held.result
        /\ rr.error_type # ERROR_OK => rr.held = NothingHeld

\* The rows of the file that follow the lines stream_skiplines skips.
DataRows ==
    LET chunks == fb_nextbuf(Skipped(stream_file(File, fb.buffer_size), rr.skiplines))
    IN  AllRows(Flatten([i \in 1..Len(chunks) |-> chunks[i].data]))

\* The first data row was read: read_rows fixed the number of columns.
FirstRowRead == rr.actual_num_fields # -1

\* The number of output columns of the read: the length of usecols if it
\* was given, else the number of fields of a structured schema, else the
\* number of fields of the first data row of the file.
OutputColumns ==
    IF ~rr.usecols_arg.null THEN Len(rr.usecols_arg.at)
    ELSE IF rr.num_field_types > 1 THEN rr.num_field_types
    ELSE Len(DataRows[1])

\* C26: from the first data row on, and for every later row, the number of
\* output columns that read_rows reports is the length of usecols if usecols
\* was given, else the number of fields of a structured schema, else the
\* number of fields of the first data row.
C26_OutputColumns == FirstRowRead => rr.num_cols = OutputColumns

\* The number of fields of the first data row of the file.
FirstRowFields == Len(DataRows[1])

\* The column of the file that output column i reads.
SourceIndex(i) ==
    IF rr.usecols_arg.null THEN i - 1
    ELSE Resolve(rr.usecols_arg.at[i], FirstRowFields)

\* The objects of the converters dict whose key names column src of the
\* file, a negative key k naming column k + n.
BoundTo(src) ==
    {rr.converters.dict[key] :
        key \in {key \in DOMAIN rr.converters.dict : Resolve(key, FirstRowFields) = src}}

\* Entry func of the converter table is the converter of column src.
IsConverterOf(func, src) ==
    IF BoundTo(src) = {} THEN func = NO_FUNC ELSE func \in BoundTo(src)

\* The converter table was built.
TableBuilt == FirstRowRead /\ ~rr.converters.none

\* The output columns that read a column the first row has.
ValidColumns ==
    {i \in 1..rr.num_usecols : SourceIndex(i) >= 0 /\ SourceIndex(i) < FirstRowFields}

\* Every entry of the converter table is the converter of the column of the
\* file that its output column reads; converters of other columns are in
\* no entry.
TableBinding ==
    \A i \in ValidColumns : IsConverterOf(rr.conv_funcs.at[i], SourceIndex(i))

\* A key of the converters dict names no column of the file, or an object
\* of the dict cannot be called.
BadConverters ==
    \E key \in DOMAIN rr.converters.dict :
        \/ key < -FirstRowFields \/ key >= FirstRowFields
        \/ rr.converters.dict[key] \notin Callables

\* Every cell of the rows that were converted holds what the converter of
\* its column of the file made of the field, or the field itself when the
\* column has no converter.
AppliedBinding ==
    \A q \in 1..Len(rr.blks) : \A i \in 1..Len(rr.blks[q]) :
        LET src == SourceIndex(i)
            token == DataRows[q][src + 1]
        IN  \/ BoundTo(src) = {} /\ rr.blks[q][i] = set_U(token, field_types[1].itemsize)
            \/ \E func \in BoundTo(src) : rr.blks[q][i] = <<func>> \o token

\* C27: once the converter table is built, each output column holds the
\* converter whose key names the column of the file it reads, a negative
\* key k naming column k + n, and converters of columns that are not read
\* are dropped; without usecols, a key outside [-n, n) or an object that
\* cannot be called makes the read fail with no row converted; and every
\* converted cell was made by the converter of its column of the file.
C27_ConverterTable ==
    TableBuilt =>
        /\ TableBinding
        /\ rr.usecols_arg.null /\ BadConverters
               => rr.error_type # ERROR_OK /\ rr.row_count = 0
        /\ AppliedBinding

\* ------------------------------------------------------------------------
\* The fields index after a call of tokenize()
\* ------------------------------------------------------------------------

\* tokenize() has returned a row of at least one field.
RowReturned ==
    /\ pc \in {"call", "done"}
    /\ rets # <<>>
    /\ rets[Len(rets)].res >= 0
    /\ ts.num_fields >= 1

\* Entry i of the fields index, counted from 0, is inside the memory of the
\* index and was written.
ValidEntry(i) == i + 1 <= ts.fields_size /\ ts.fields[i + 1] # JunkField

\* The code points of field i, counted from 0, as the offsets of the entries
\* i and i + 1 delimit them.
ByOffsets(i) ==
    SubSeq(ts.field_buffer, ts.fields[i + 1].offset + 1, ts.fields[i + 2].offset - 1)

\* C30: when tokenize() returns a row of n fields, the entries 0..n of the
\* fields index are valid, their offsets increase strictly, and every field
\* i < n, the last one included, is the fields[i+1].offset -
\* fields[i].offset - 1 code points of the field buffer that start at
\* fields[i].offset.
C30_FieldsIndex ==
    RowReturned =>
        /\ \A i \in 0..ts.num_fields : ValidEntry(i)
        /\ \A i \in 0..(ts.num_fields - 1) :
               /\ ts.fields[i + 1].offset < ts.fields[i + 2].offset
               /\ ByOffsets(i) = rets[Len(rets)].fields[i + 1].text

\* ------------------------------------------------------------------------
\* The end of the input inside a quoted field
\* ------------------------------------------------------------------------

\* Position p of the input holds the quote that opens the last field, which
\* the input ends in: the quote is the first one of the input and stands at
\* the start of a field, no comment begins before it, and after it comes no
\* quote and, unless quoted fields may hold them, no line terminator.
OpensLastField(p) ==
    /\ Text[p] = config.quote
    /\ p = 1 \/ Text[p - 1] = config.delimiter \/ IsNewline(Text[p - 1])
    /\ \A i \in 1..(p - 1) : Text[i] # config.quote /\ Text[i] # config.comment[1]
    /\ \A i \in (p + 1)..Len(Text) :
           /\ Text[i] # config.quote
           /\ config.allow_embedded_newline \/ ~IsNewline(Text[i])

\* The characters of the field that the quote at p opens.
Partial(p) == SubSeq(Text, p + 1, Len(Text))

\* Call i returned a row that ends in the quoted field of the given text,
\* and every later call returned end-of-input and no field.
ClosedBy(i, text) ==
    /\ rets[i].res >= 0
    /\ rets[i].fields # <<>>
    /\ rets[i].fields[Len(rets[i].fields)] = [text |-> text, quoted |-> TRUE]
    /\ \A j \in (i + 1)..Len(rets) : rets[j].res = 1 /\ rets[j].fields = <<>>

\* C29: when the input ends inside an open quoted field, some call of
\* tokenize() returns a row whose last field is quoted and holds exactly the
\* characters that follow the opening quote, and every call after it
\* returns end-of-input.
C29_EofInsideQuotes ==
    Done =>
        \A p \in 1..Len(Text) :
            OpensLastField(p) => \E i \in 1..(Len(rets) - 1) : ClosedBy(i, Partial(p))

\* ------------------------------------------------------------------------
\* The NUL cells of the field buffer
\* ------------------------------------------------------------------------

\* Cell i of the field buffer, counted from 0, is inside the buffer and NUL.
NulAt(i) == i + 1 <= ts.field_buffer_length /\ ts.field_buffer[i + 1] = NUL

\* A call of tokenize() is running and has copied to the field buffer.
Copied ==
    pc \in {"loop", "switch"} /\ (loc.started_saving_word \/ ts.num_fields > 0)

\* C31: after every copy_to_field_buffer and every add_field of a call, the
\* cell after the last code point written to the field buffer is NUL, every
\* field of the fields index is followed by a NUL cell, and the buffer has
\* room for two NUL cells after the current word: field_buffer_length >=
\* field_buffer_pos + 2.
C31_FieldBufferNul ==
    Copied =>
        /\ IF loc.started_saving_word THEN NulAt(ts.field_buffer_pos)
           ELSE NulAt(ts.field_buffer_pos - 1)
        /\ \A i \in 1..ts.num_fields :
               NulAt(ts.fields[i].offset + ts.fields[i].length)
        /\ ts.field_buffer_length >= ts.field_buffer_pos + 2

\* ------------------------------------------------------------------------
\* Line terminators inside quoted fields
\* ------------------------------------------------------------------------

\* The quote at position p opens a field and the line terminator at position
\* q is the first character after it that is a line terminator, with no
\* quote between them: the quote is the first one of the input and stands
\* at the start of a field, and no comment begins before it.
EmbeddedAt(p, q) ==
    /\ p < q
    /\ Text[p] = config.quote
    /\ p = 1 \/ Text[p - 1] = config.delimiter \/ IsNewline(Text[p - 1])
    /\ \A i \in 1..(p - 1) : Text[i] # config.quote /\ Text[i] # config.comment[1]
    /\ \A i \in (p + 1)..(q - 1) : Text[i] # config.quote /\ ~IsNewline(Text[i])
    /\ IsNewline(Text[q])

\* Some returned field is quoted and begins with the given text.
SomeFieldBeginsWith(text) ==
    \E i \in 1..Len(rets) : \E j \in 1..Len(rets[i].fields) :
        /\ rets[i].fields[j].quoted
        /\ Len(rets[i].fields[j].text) >= Len(text)
        /\ SubSeq(rets[i].fields[j].text, 1, Len(text)) = text

\* The rows with fields that the calls after call i returned.
RowsAfter(i) == NonEmptyRows(Rows(SubSeq(rets, i + 1, Len(rets))))

\* Call i returned a row that ends in the quoted field of the given text
\* (a row of that one field alone, when the field is empty, is a blank line
\* and has no fields), and the calls after it returned the rows of the text
\* rest.
EndsRowAt(i, text, rest) ==
    /\ IF rets[i].fields = <<>> THEN text = <<>>
       ELSE rets[i].fields[Len(rets[i].fields)] = [text |-> text, quoted |-> TRUE]
    /\ RowsAfter(i) = NonEmptyRows(Rows(SingleChunkRun(rest, config)))

\* C32: a line terminator inside an open quoted section is copied into the
\* field when allow_embedded_newline is true; when it is false, the first
\* one ends the field and the row, and the text after it is read as new
\* rows.
C32_EmbeddedNewlines ==
    Done =>
        \A p \in 1..Len(Text) : \A q \in 1..Len(Text) :
            EmbeddedAt(p, q) =>
                IF config.allow_embedded_newline
                THEN SomeFieldBeginsWith(SubSeq(Text, p + 1, q))
                ELSE \E i \in 1..Len(rets) :
                         EndsRowAt(i, SubSeq(Text, p + 1, q - 1),
                                   SubSeq(Text, q + 1, Len(Text)))

\* A quoted section that a line terminator ended, with a row after it.
C32_Witness ==
    /\ Done
    /\ ~config.allow_embedded_newline
    /\ cuts # {}
    /\ \E p \in 1..Len(Text) : \E q \in 1..Len(Text) :
           /\ EmbeddedAt(p, q)
           /\ \E i \in 1..Len(rets) :
                  /\ EndsRowAt(i, SubSeq(Text, p + 1, q - 1),
                               SubSeq(Text, q + 1, Len(Text)))
                  /\ RowsAfter(i) # <<>>

\* ------------------------------------------------------------------------
\* The grammar of the integer parsers
\* ------------------------------------------------------------------------

\* Whether the token is optional whitespace, an optional sign ('-' for a
\* signed parser only), one or more digits that spell a number of the
\* parser's type, and optional whitespace.
IntegerToken(parser, str) ==
    /\ IntegerText(Strip(str))
    /\ At(Strip(str), 1) = "-" => parser \notin UintParsers
    /\ IntegerOf(Strip(str)) >= Lo(parser)
    /\ IntegerOf(Strip(str)) <= Hi(parser)

\* The integer parser alone decided the conversion: there is no fallback
\* to the float parser.
IntegerParsed ==
    /\ Converted
    /\ conv.parser \in IntParsers
    /\ ~conv.pconfig.allow_float_for_int

\* C33: str_to_int64 and str_to_uint64 accept exactly the tokens made of
\* optional whitespace, an optional sign ('+', or '-' for the signed parser
\* only), one or more decimal digits within the range, and optional
\* whitespace up to the end pointer; every other token is rejected, and the
\* result of an accepted token is the integer it denotes.
C33_IntegerGrammar ==
    IntegerParsed =>
        /\ conv.ret = 0 <=> IntegerToken(conv.parser, conv.str)
        /\ conv.ret = 0 => conv.x = IntegerOf(Strip(conv.str))

\* ------------------------------------------------------------------------
\* Termination of the calls of tokenize()
\* ------------------------------------------------------------------------

\* The loop of tokenize() and the loop of its caller always take their next
\* step: nothing else runs.
SpecLive == Init /\ [][Next]_vars /\ WF_vars(Next)

InCall == pc \in {"loop", "switch"}

BetweenCalls == pc \in {"call", "done"}

\* C34: every call of tokenize() returns after finitely many steps of its
\* loop, and the calls reach the end of the file, or an error, after
\* finitely many calls, for every input, chunking and dialect.
C34_Termination == (InCall ~> BetweenCalls) /\ <>Done

\* A run of several calls over a chunked input came to its end.
C34_Witness ==
    /\ Done
    /\ cuts # {}
    /\ Len(rets) > 2 + MaxExtraCalls
    /\ rets[Len(rets)].res = 1

\* ------------------------------------------------------------------------
\* A last line without its line terminator
\* ------------------------------------------------------------------------

\* The last line of the input is not terminated.
Unterminated == Text # <<>> /\ ~IsNewline(Text[Len(Text)])

\* The rows with fields that the calls returned, and those returned for
\* the input with a line terminator appended.
RowsReturned == NonEmptyRows(Rows(rets))

RowsTerminated == NonEmptyRows(Rows(SingleChunkRun(Text \o <<LF>>, config)))

\* C35: appending a line terminator to an input whose last line is not
\* terminated does not change the rows the tokenizer returns.
C35_FinalNewline == (Done /\ Unterminated) => RowsReturned = RowsTerminated

\* The same with the last line ending inside no quoted field, in no
\* delimiter and in no first character of a two-character comment.

\* ------------------------------------------------------------------------
\* The tokenizer between two calls
\* ------------------------------------------------------------------------

\* A step in which tokenize() returns 0 or 1, and one in which it is
\* entered.
Returns ==
    /\ InCall
    /\ BetweenCalls'
    /\ rets'[Len(rets')].res \in {0, 1}

Enters == pc = "call" /\ pc' = "loop"

\* The call that is entered starts an empty row.
StartsEmpty == Enters => ts'.num_fields = 0 /\ ts'.field_buffer_pos = 0

\* C36 as stated: when tokenize() returns 0 or 1 the state is TOKENIZE_INIT
\* or TOKENIZE_FINALIZE_FILE and no started field is left unpushed, and the
\* next call starts with num_fields = 0 and field_buffer_pos = 0.
C36_BetweenCalls_InitOrFile ==
    [][/\ Returns =>
              /\ ts'.state \in {TOKENIZE_INIT, TOKENIZE_FINALIZE_FILE}
              /\ ~loc.started_saving_word
       /\ StartsEmpty]_vars

\* C36: when tokenize() returns 0 or 1 the state is one of those outside a
\* field, TOKENIZE_INIT after a return of 0, and no started field is left
\* unpushed; the next call starts with num_fields = 0 and
\* field_buffer_pos = 0.
C36_BetweenCalls ==
    [][/\ Returns =>
              /\ ts'.state \in TOKENIZE_OUTSIDE_FIELD
              /\ rets'[Len(rets')].res = 0 => ts'.state = TOKENIZE_INIT
              /\ ~loc.started_saving_word
       /\ StartsEmpty]_vars

\* A second call is entered after a row of fields was returned.
C36_Witness ==
    /\ pc = "loop"
    /\ Len(rets) = 1
    /\ rets[1].res = 0
    /\ rets[1].fields # <<>>
    /\ ts.state = TOKENIZE_INIT
    /\ ts.num_fields = 0
    /\ ts.field_buffer_pos = 0
    /\ strm # <<>>

\* ------------------------------------------------------------------------
\* The bounds of the tokenizer's buffers
\* ------------------------------------------------------------------------

\* A line of seven fields, with a quoted field, a doubled quote, a lone
\* comment character and a comment, and a last line without terminator.
WideLine ==
    <<"a", ",", "\"", "a", "\"", "\"", "a", "\"", ",", ",", "a", "a", "a", "a", "a", ",",
      "a", ",", "a", "#", ",", "#", "!", "a", NLrn, "a", ",", "a">>

\* The tokenizer on the wide line, cut into chunks in every way.
InitWide ==
    /\ config = Comment2Config
    /\ symbols = WideLine
    /\ cuts \in CutSets(Len(Expand(symbols)), MaxCuts)
    /\ strm = Chunks(Expand(symbols), cuts)
    /\ ts = tokenizer_init
    /\ loc = NoLocals
    /\ pc = "call"
    /\ rets = <<>>
    /\ eofcalls = 0
    /\ fb = stream_file(<<>>, MaxBufferSize)
    /\ rr = [read_rows_enter(NULL, 0) EXCEPT !.pc = "idle"]
    /\ conv = NoConversion

SpecWide == InitWide /\ [][Next]_vars

\* The buffers are as long as the tokenizer state says.
Allocated ==
    /\ Len(ts.field_buffer) = ts.field_buffer_length
    /\ Len(ts.fields) = ts.fields_size

\* The cells that copy_to_field_buffer wrote for the word being saved, the
\* NUL after it among them, lie in the field buffer.
WordInBuffer ==
    loc.started_saving_word =>
        /\ loc.word_start + loc.word_length = ts.field_buffer_pos
        /\ ts.field_buffer_pos < ts.field_buffer_length
        /\ NulAt(ts.field_buffer_pos)

\* The entries that add_field wrote lie in the fields index, and the words
\* they tell of lie in the field buffer with the NUL after them.
FieldsInIndex ==
    /\ ts.num_fields <= ts.fields_size
    /\ \A i \in 1..ts.num_fields :
           /\ ts.fields[i] # JunkField
           /\ ts.fields[i].offset >= 0
           /\ ts.fields[i].offset + ts.fields[i].length < ts.field_buffer_length

\* Neither buffer shrinks.
Grows ==
    /\ ts'.field_buffer_length >= ts.field_buffer_length
    /\ ts'.fields_size >= ts.fields_size

\* C37: every write into the field buffer is at an index below
\* field_buffer_length and every write into the fields index at an index
\* below fields_size, whatever the fields and the chunking, and the
\* capacity of both only grows.
C37_BufferBounds ==
    [][/\ Allocated'
       /\ InCall' => WordInBuffer' /\ FieldsInIndex'
       /\ Grows]_vars

\* Both buffers were grown beyond their first size while a row was read.
C37_Witness ==
    /\ InCall
    /\ cuts # {}
    /\ ts.field_buffer_length > 8
    /\ ts.fields_size > 4
    /\ ts.num_fields > 4

\* ------------------------------------------------------------------------
\* What read_rows does to the arguments of its caller
\* ------------------------------------------------------------------------

\* The caller's usecols holds what the caller passed.
UsecolsKept == rr.usecols = rr.usecols_arg

\* C38: the parser configuration and the caller's usecols hold the same
\* values when read_rows has returned as when it was called, whether the
\* read succeeded or failed.
C38_CallerInputs ==
    [][/\ config' = config
       /\ RowsDone' => UsecolsKept']_vars

\* ------------------------------------------------------------------------
\* The code points fetched from a file
\* ------------------------------------------------------------------------

\* A file is opened at its start with a buffer of buffer_size bytes, and
\* its stream is fetched from and peeked at; rets holds what the calls of
\* fb_fetch returned.
InitFetch ==
    /\ config = DefaultConfig
    /\ symbols \in Files
    /\ cuts = {}
    /\ strm = <<>>
    /\ ts = tokenizer_init
    /\ loc = NoLocals
    /\ pc = "idle"
    /\ rets = <<>>
    /\ eofcalls = 0
    /\ rr = [read_rows_enter(NULL, 0) EXCEPT !.pc = "idle"]
    /\ conv = NoConversion
    /\ \E buffer_size \in 1..MaxBufferSize : fb = stream_file(symbols, buffer_size)

\* A call of fb_fetch; the caller stops after 1 + MaxExtraCalls calls told
\* the end of the file.
FbFetch ==
    /\ eofcalls <= MaxExtraCalls
    /\ \E f \in {fb_fetch(fb)} :
           /\ fb' = f.fb
           /\ rets' = Append(rets, f.c)
           /\ eofcalls' = IF f.c = STREAM_EOF THEN eofcalls + 1 ELSE eofcalls
    /\ UNCHANGED <<symbols, config, cuts, ts, loc, strm, pc, rr, conv>>

\* A call of fb_next, which may refill the buffer.
FbNext ==
    /\ eofcalls <= MaxExtraCalls
    /\ fb' = fb_next(fb).fb
    /\ UNCHANGED <<symbols, config, cuts, ts, loc, strm, pc, rets, eofcalls, rr, conv>>

NextFetch ==
    \/ FbFetch
    \/ FbNext

SpecFetch == InitFetch /\ [][NextFetch]_vars

\* The bytes of a file with each "\r\n" made one '\n'.
RECURSIVE Collapse(_)
Collapse(bytes) ==
    IF bytes = <<>> THEN <<>>
    ELSE IF Len(bytes) >= 2 /\ bytes[1] = CR /\ bytes[2] = LF
    THEN <<LF>> \o Collapse(SubSeq(bytes, 3, Len(bytes)))
    ELSE <<bytes[1]>> \o Collapse(Tail(bytes))

\* What the i-th call of fb_fetch has to return.
Fetched(i) == IF i <= Len(Collapse(File)) THEN Collapse(File)[i] ELSE STREAM_EOF

\* C39: for every file and every buffer_size >= 1, the calls of fb_fetch,
\* with calls of fb_next among them, return the bytes of the file with each
\* "\r\n" made one '\n' and then STREAM_EOF; fb_next tells what the next
\* fb_fetch returns, and line_number is 1 plus the number of '\n' returned.
C39_BufferSizeIndependence ==
    /\ \A i \in 1..Len(rets) : rets[i] = Fetched(i)
    /\ fb_next(fb).c = Fetched(Len(rets) + 1)
    /\ fb.line_number = 1 + Count(rets, LF)

\* ------------------------------------------------------------------------
\* The destination cell of a conversion that failed
\* ------------------------------------------------------------------------

\* No byte at dataptr was written: the parsers of numbers store nothing, and
\* the bytes that to_string was handed are as they were.
Untouched ==
    /\ ~conv.stored
    /\ conv.parser = "to_string" => \A i \in 1..conv.elsize : conv.dataptr[i] = JUNK

\* C40: whenever a parser of a field returns an error, no byte at dataptr
\* has been modified.
C40_FailureLeavesCell == (Converted /\ conv.ret < 0) => Untouched

=============================================================================
